---- MODULE Spec2Model ----
(***************************************************************************)
(* Model of the in-memory graph store of OSINT Studio                      *)
(* (src-tauri/src/database.rs): a HashMap<Uuid, Node> and a                *)
(* Vec<Relationship>, each behind its own Mutex, shared by concurrent      *)
(* callers. Every store operation is a sequence of steps of the calling    *)
(* thread: it is invoked, takes the mutex(es) it needs, works on the       *)
(* collection(s) and returns, dropping its guards.                         *)
(***************************************************************************)
EXTENDS Integers, Sequences, FiniteSets, TLC

(***************************************************************************)
(* Bounds of the model.                                                    *)
(***************************************************************************)
MaxNodeId == 2
MaxRelId == 2
MaxRels == 2
NumThreads == 2
NumCreators == 2
NumDeleters == 2
MaxScript == 2

NodeIds == 1..MaxNodeId
RelIds == 1..MaxRelId

\* Node labels, as sequences of characters.
Labels == {<<"A">>, <<"b">>}

\* entities.rs: struct Node, reduced to its key and one payload field.
Nodes == [id : NodeIds, label : Labels]

\* entities.rs: struct Relationship, reduced to its id and its two endpoints.
Relationships == [id : RelIds, source_id : NodeIds, target_id : NodeIds]

Max(a, b) == IF a >= b THEN a ELSE b

\* The callers of the store. The free-running and scripted harnesses use
\* 1..NumThreads, the stress harness one thread per creator and deleter.
Threads == 1..NumThreads
StressThreads == 1..(NumCreators + NumDeleters)
AllThreads == 1..Max(NumThreads, NumCreators + NumDeleters)

\* Owner of an unlocked mutex.
NoThread == 0

(***************************************************************************)
(* The collections' primitives, as the standard library computes them.     *)
(***************************************************************************)

\* HashMap::new()
HashMapNew == [k \in {} |-> k]

\* Mutant of HashMapInsert: a value is replaced, a missing key is not added.
HashMapInsertIfPresent(m, k, v) == [x \in DOMAIN m |-> IF x = k THEN v ELSE m[x]]

\* HashMap::insert(k, v): adds the key or overwrites its value.
HashMapInsert(m, k, v) == [x \in DOMAIN m \cup {k} |-> IF x = k THEN v ELSE m[x]]

\* Mutant of HashMapRemove: the entry is looked up and left in the map.
HashMapRemoveNothing(m, k) == m

\* HashMap::remove(&k): the map without the key.
HashMapRemove(m, k) == [x \in DOMAIN m \ {k} |-> m[x]]

\* HashMap::values().cloned().collect(): the stored values, in no order.
HashMapValues(m) == {m[k] : k \in DOMAIN m}

\* Mutant of RetainPred: the source is not looked at.
RetainPredTargetOnly(rel, id) == rel.target_id # id

\* Mutant of RetainPred: the target is not looked at.
RetainPredSourceOnly(rel, id) == rel.source_id # id

\* The closure of delete_node's retain: keep what does not touch id.
RetainPred(rel, id) == rel.source_id # id /\ rel.target_id # id

\* Mutant of VecRetain: the pass stops after the first element it removes.
RECURSIVE VecRetainFirstOnly(_, _)
VecRetainFirstOnly(v, id) ==
    IF v = <<>> THEN <<>>
    ELSE IF (Head(v).source_id # id /\ Head(v).target_id # id)
         THEN <<Head(v)>> \o VecRetainFirstOnly(Tail(v), id)
         ELSE Tail(v)

\* Vec::retain(|rel| ...): one pass, front to back, keeping order.
RECURSIVE VecRetain(_, _)
VecRetain(v, id) ==
    IF v = <<>> THEN <<>>
    ELSE IF RetainPred(Head(v), id)
         THEN <<Head(v)>> \o VecRetain(Tail(v), id)
         ELSE VecRetain(Tail(v), id)

\* Mutant of VecPosition: the index of the last match is taken.
VecPositionLast(v, id) ==
    LET hits == {i \in 1..Len(v) : v[i].id = id} IN
    IF hits = {} THEN 0 ELSE CHOOSE i \in hits : \A j \in hits : j <= i

\* iter().position(|r| r.id == id): index of the first match, 0 for None.
RECURSIVE PositionFrom(_, _, _)
PositionFrom(v, id, i) ==
    IF i > Len(v) THEN 0
    ELSE IF v[i].id = id THEN i
    ELSE PositionFrom(v, id, i + 1)

VecPosition(v, id) == PositionFrom(v, id, 1)

\* Mutant of VecRemove: the last element is removed, whatever pos is.
VecPop(v, pos) == SubSeq(v, 1, Len(v) - 1)

\* Vec::remove(pos): the later elements shift left.
VecRemove(v, pos) == SubSeq(v, 1, pos - 1) \o SubSeq(v, pos + 1, Len(v))

\* relationships[pos] = relationship
VecSet(v, pos, r) == [v EXCEPT ![pos] = r]

\* Mutant of VecPush: a record whose endpoints are already stored is dropped.
VecPushDedup(v, r) ==
    IF \E i \in 1..Len(v) : v[i].source_id = r.source_id /\ v[i].target_id = r.target_id
    THEN v
    ELSE Append(v, r)

\* Vec::push
VecPush(v, r) == Append(v, r)

\* Mutant of TouchesNode: the target is not looked at.
TouchesNodeSourceOnly(rel, node_id) == rel.source_id = node_id

\* The closure of get_node_relationships' filter.
TouchesNode(rel, node_id) == rel.source_id = node_id \/ rel.target_id = node_id

\* iter().filter(...).cloned().collect()
RECURSIVE VecFilterNode(_, _)
VecFilterNode(v, node_id) ==
    IF v = <<>> THEN <<>>
    ELSE IF TouchesNode(Head(v), node_id)
         THEN <<Head(v)>> \o VecFilterNode(Tail(v), node_id)
         ELSE VecFilterNode(Tail(v), node_id)

(***************************************************************************)
(* Strings, as search_nodes compares them.                                 *)
(***************************************************************************)
\* str::to_lowercase, on the characters the labels and queries are made of.
CharToLowercase(ch) ==
    CASE ch = "A" -> "a"
      [] ch = "B" -> "b"
      [] OTHER -> ch

ToLowercase(str) == [i \in 1..Len(str) |-> CharToLowercase(str[i])]

\* str::contains: pat occurs in str as a substring (the empty one always).
Contains(str, pat) ==
    \E i \in 0..(Len(str) - Len(pat)) : SubSeq(str, i + 1, i + Len(pat)) = pat

\* node.description (an Option) and node.tags of a node record; a record
\* without these fields has no description and no tags.
Description(node) == IF "description" \in DOMAIN node THEN {node.description} ELSE {}
Tags(node) == IF "tags" \in DOMAIN node THEN node.tags ELSE <<>>

\* Mutant of NodeMatches: the tags are not looked at.
NodeMatchesNoTags(node, query_lower) ==
    \/ Contains(ToLowercase(node.label), query_lower)
    \/ \E desc \in Description(node) : Contains(ToLowercase(desc), query_lower)

\* The closure of search_nodes' filter.
NodeMatches(node, query_lower) ==
    \/ Contains(ToLowercase(node.label), query_lower)
    \/ \E desc \in Description(node) : Contains(ToLowercase(desc), query_lower)
    \/ \E i \in 1..Len(Tags(node)) : Contains(ToLowercase(Tags(node)[i]), query_lower)

\* The queries callers search for.
Queries == {<<>>, <<"a">>, <<"B">>}

(***************************************************************************)
(* Calls and return values.                                                *)
(***************************************************************************)
Call(op, arg) == [op |-> op, arg |-> arg]
NoArg == [none |-> TRUE]
IdArg(id) == [id |-> id]
QueryArg(query) == [query |-> query]

NoCall == Call("none", NoArg)

RetNone == [kind |-> "none"]
RetUnit == [kind |-> "unit"]
RetId(id) == [kind |-> "id", v |-> id]
RetBool(b) == [kind |-> "bool", v |-> b]
RetNodes(s) == [kind |-> "nodes", v |-> s]
RetRels(s) == [kind |-> "rels", v |-> s]
\* Option<Node>: the set holding the node, or the empty set.
RetOption(s) == [kind |-> "option", v |-> s]

NodeCalls ==
    {Call("create_node", n) : n \in Nodes}
    \cup {Call("update_node", n) : n \in Nodes}
    \cup {Call("get_node", IdArg(i)) : i \in NodeIds}
    \cup {Call("get_all_nodes", NoArg)}
    \cup {Call("search_nodes", QueryArg(q)) : q \in Queries}

RelCalls ==
    {Call("create_relationship", r) : r \in Relationships}
    \cup {Call("update_relationship", r) : r \in Relationships}
    \cup {Call("delete_relationship", IdArg(i)) : i \in RelIds}
    \cup {Call("get_relationships", NoArg)}
    \cup {Call("get_node_relationships", IdArg(i)) : i \in NodeIds}

BothCalls ==
    {Call("delete_node", IdArg(i)) : i \in NodeIds}
    \cup {Call("clear_all", NoArg)}

AllCalls == NodeCalls \cup RelCalls \cup BothCalls

\* The calls that write to a collection.
WriteOps == {"create_node", "update_node", "delete_node", "create_relationship",
             "update_relationship", "delete_relationship", "clear_all"}
WriteCalls == {c \in AllCalls : c.op \in WriteOps}

\* The calls of the concurrent harness: every writing call, its nodes
\* carrying one label.
OneLabel == CHOOSE l \in Labels : TRUE
ConcurrentCalls ==
    {c \in WriteCalls : c.op \in {"create_node", "update_node"} => c.arg.label = OneLabel}

\* One call of each operation, all on the first node id and relationship id.
FirstNode == [id |-> 1, label |-> OneLabel]
FirstRelationship == [id |-> 1, source_id |-> 1, target_id |-> 1]
PlainCalls ==
    {c \in AllCalls :
        CASE c.op \in {"create_node", "update_node"} -> c.arg = FirstNode
          [] c.op \in {"create_relationship", "update_relationship"} ->
                 c.arg = FirstRelationship
          [] c.op \in {"get_all_nodes", "get_relationships", "clear_all"} -> TRUE
          [] c.op = "search_nodes" -> c.arg.query = <<>>
          [] OTHER -> c.arg.id = 1}

\* The first step of each operation: every one starts by locking a mutex.
EntryPc(op) ==
    CASE op = "create_node" -> "cn_lock"
      [] op = "update_node" -> "un_lock"
      [] op = "get_node" -> "gn_lock"
      [] op = "get_all_nodes" -> "gan_lock"
      [] op = "search_nodes" -> "sn_lock"
      [] op = "delete_node" -> "dn_lock_nodes"
      [] op = "create_relationship" -> "cr_lock"
      [] op = "update_relationship" -> "ur_lock"
      [] op = "delete_relationship" -> "dr_lock"
      [] op = "get_relationships" -> "gr_lock"
      [] op = "get_node_relationships" -> "gnr_lock"
      [] op = "clear_all" -> "ca_lock_nodes"

(***************************************************************************)
(* State.                                                                  *)
(***************************************************************************)
VARIABLES
    nodes,                \* Database.nodes: the map behind the node mutex
    relationships,        \* Database.relationships: the list behind its mutex
    nodes_mutex,          \* the thread holding the node mutex, or NoThread
    relationships_mutex,  \* the thread holding the relationship mutex
    pc,                   \* each thread's position in its current call
    call,                 \* each thread's current (or last) call
    ret,                  \* what each thread's last completed call returned
    node_existed,         \* delete_node's local of that name, per thread
    script,               \* the calls a scripted thread still has to make
    observe,              \* which observations the harness records
    pre,                  \* observation: the store when the call was invoked
    log,                  \* observation: the steps taken, in order
    deleted,              \* ids whose delete_node returned true, not re-inserted
    cascaded,             \* ids whose cascade has run, not written to since
    cmd,                  \* each thread's command handler: request, locals, result
    clock                 \* the time chrono::Utc::now() last returned

vars == <<nodes, relationships, nodes_mutex, relationships_mutex, pc, call, ret,
          node_existed, script, observe, pre, log, deleted, cascaded, cmd, clock>>

store == <<nodes, relationships>>
mutexes == <<nodes_mutex, relationships_mutex>>
ghosts == <<deleted, cascaded>>

\* No command handler is running.
NoCmd == [name |-> "none", stage |-> "none", request |-> NoArg, local |-> NoArg,
          result |-> RetNone, before |-> <<HashMapNew, <<>>>>, calls |-> <<>>, run |-> 0]

\* The store as a call finds it, with the call.
Snapshot(c) == [nodes |-> nodes, relationships |-> relationships, call |-> c]

\* Database::new(), with every caller idle.
InitStore ==
    /\ nodes = HashMapNew
    /\ relationships = <<>>
    /\ nodes_mutex = NoThread
    /\ relationships_mutex = NoThread

InitThreads ==
    /\ pc = [t \in AllThreads |-> "idle"]
    /\ call = [t \in AllThreads |-> NoCall]
    /\ ret = [t \in AllThreads |-> RetNone]
    /\ node_existed = [t \in AllThreads |-> FALSE]
    /\ pre = [nodes |-> HashMapNew, relationships |-> <<>>, call |-> NoCall]
    /\ log = <<>>
    /\ deleted = {}
    /\ cascaded = {}
    /\ cmd = [t \in AllThreads |-> NoCmd]
    /\ clock = 0

\* Mutex::lock() returns once no other thread holds the mutex.
CanLock(m) == m = NoThread

\* Thread t moves from label `from` to label `to`.
Goto(t, from, to) ==
    /\ pc[t] = from
    /\ pc' = [pc EXCEPT ![t] = to]

\* A step inside a call: the call goes on.
Step(t, from, to) ==
    /\ Goto(t, from, to)
    /\ UNCHANGED <<call, ret>>

\* A step that is recorded when the harness keeps a log.
Logged(t, what, c, r) ==
    log' = IF "log" \in observe
           THEN Append(log, [thread |-> t, what |-> what, call |-> c, ret |-> r])
           ELSE log

\* create_relationship calls are not invoked once the list, with the
\* pushes still in flight, is full: the bound that keeps the list finite.
PushesInFlight ==
    Cardinality({t \in AllThreads : pc[t] \in {"cr_lock", "cr_push"}})

Admissible(c) ==
    c.op = "create_relationship" => Len(relationships) + PushesInFlight < MaxRels

\* Thread t starts call c.
Start(t, c) ==
    /\ Admissible(c)
    /\ Goto(t, "idle", EntryPc(c.op))
    /\ call' = [call EXCEPT ![t] = c]
    /\ ret' = [ret EXCEPT ![t] = RetNone]
    /\ pre' = IF "pre" \in observe THEN Snapshot(c) ELSE pre
    /\ UNCHANGED <<store, mutexes, node_existed, observe, ghosts>>
    /\ Logged(t, "invoke", c, RetNone)

\* A free-running thread invokes any call of `calls`.
Invoke(t, calls) ==
    /\ \E c \in calls : Start(t, c)
    /\ UNCHANGED <<script, cmd, clock>>

\* A scripted thread invokes the next call of its script.
InvokeScript(t) ==
    /\ script[t] # <<>>
    /\ Start(t, Head(script[t]))
    /\ script' = [script EXCEPT ![t] = Tail(script[t])]
    /\ UNCHANGED <<cmd, clock>>

\* What a step that is not an invocation leaves alone.
Frame == UNCHANGED <<script, observe, pre, cmd, clock>>

\* let mut nodes = self.nodes.lock().unwrap();
LockNodes(t, from, to) ==
    /\ CanLock(nodes_mutex)
    /\ Step(t, from, to)
    /\ nodes_mutex' = t
    /\ UNCHANGED <<store, relationships_mutex, node_existed, ghosts>>
    /\ Frame
    /\ Logged(t, "lock_nodes", call[t], RetNone)

\* let mut relationships = self.relationships.lock().unwrap();
LockRelationships(t, from, to) ==
    /\ CanLock(relationships_mutex)
    /\ Step(t, from, to)
    /\ relationships_mutex' = t
    /\ UNCHANGED <<store, nodes_mutex, node_existed, ghosts>>
    /\ Frame
    /\ Logged(t, "lock_relationships", call[t], RetNone)

\* The call returns r: the thread is idle again. The value is kept when the
\* harness observes return values.
Return(t, from, r) ==
    /\ Goto(t, from, "idle")
    /\ call' = [call EXCEPT ![t] = NoCall]
    /\ ret' = IF "ret" \in observe THEN [ret EXCEPT ![t] = r] ELSE ret
    /\ Logged(t, "return", call[t], r)

(***************************************************************************)
(* Database::create_node                                                   *)
(***************************************************************************)
create_node_lock(t) == LockNodes(t, "cn_lock", "cn_insert")

\* Mutant of create_node_insert: the node is stored under the next id
\* instead of its own.
create_node_insert_wrong_key(t) ==
    LET node == call[t].arg IN
    /\ Return(t, "cn_insert", RetId(node.id))
    /\ nodes_mutex = t
    /\ nodes' = HashMapInsert(nodes, (node.id % MaxNodeId) + 1, node)
    /\ nodes_mutex' = NoThread
    /\ deleted' = deleted \ {node.id}
    /\ UNCHANGED <<relationships, relationships_mutex, node_existed, cascaded>>
    /\ Frame

\* Mutant of create_node_insert: a stored node is kept, the new one dropped.
create_node_insert_keep_old(t) ==
    LET node == call[t].arg IN
    /\ Return(t, "cn_insert", RetId(node.id))
    /\ nodes_mutex = t
    /\ nodes' = IF node.id \in DOMAIN nodes THEN nodes
                ELSE HashMapInsert(nodes, node.id, node)
    /\ nodes_mutex' = NoThread
    /\ deleted' = deleted \ {node.id}
    /\ UNCHANGED <<relationships, relationships_mutex, node_existed, cascaded>>
    /\ Frame

create_node_insert(t) ==
    LET node == call[t].arg IN
    /\ Return(t, "cn_insert", RetId(node.id))
    /\ nodes_mutex = t
    /\ nodes' = HashMapInsert(nodes, node.id, node)
    /\ nodes_mutex' = NoThread
    /\ deleted' = deleted \ {node.id}
    /\ UNCHANGED <<relationships, relationships_mutex, node_existed, cascaded>>
    /\ Frame

create_node(t) == create_node_lock(t) \/ create_node_insert(t)

\* Mutant of HashMapGet: the lookup finds nothing.
HashMapGetNone(m, k) == {}

(***************************************************************************)
(* Database::get_node                                                      *)
(***************************************************************************)
\* nodes.get(&id).cloned()
HashMapGet(m, k) == IF k \in DOMAIN m THEN {m[k]} ELSE {}

\* A step that reads the node map under its mutex and returns r.
ReadNodes(t, from, r) ==
    /\ Return(t, from, r)
    /\ nodes_mutex = t
    /\ nodes_mutex' = NoThread
    /\ UNCHANGED <<store, relationships_mutex, node_existed, ghosts>>
    /\ Frame

get_node_lock(t) == LockNodes(t, "gn_lock", "gn_get")

get_node_get(t) == ReadNodes(t, "gn_get", RetOption(HashMapGet(nodes, call[t].arg.id)))

get_node(t) == get_node_lock(t) \/ get_node_get(t)

(***************************************************************************)
(* Database::get_all_nodes                                                 *)
(***************************************************************************)
get_all_nodes_lock(t) == LockNodes(t, "gan_lock", "gan_collect")

get_all_nodes_collect(t) == ReadNodes(t, "gan_collect", RetNodes(HashMapValues(nodes)))

get_all_nodes(t) == get_all_nodes_lock(t) \/ get_all_nodes_collect(t)

(***************************************************************************)
(* Database::search_nodes                                                  *)
(***************************************************************************)
search_nodes_lock(t) == LockNodes(t, "sn_lock", "sn_filter")

\* nodes.values().filter(...).cloned().collect(), with the query lowered.
search_nodes_filter(t) ==
    LET query_lower == ToLowercase(call[t].arg.query) IN
    ReadNodes(t, "sn_filter",
              RetNodes({node \in HashMapValues(nodes) : NodeMatches(node, query_lower)}))

search_nodes(t) == search_nodes_lock(t) \/ search_nodes_filter(t)

(***************************************************************************)
(* Database::update_node                                                   *)
(***************************************************************************)
update_node_lock(t) == LockNodes(t, "un_lock", "un_insert")

update_node_insert(t) ==
    LET node == call[t].arg IN
    /\ Return(t, "un_insert", RetUnit)
    /\ nodes_mutex = t
    /\ nodes' = HashMapInsert(nodes, node.id, node)
    /\ nodes_mutex' = NoThread
    /\ deleted' = deleted \ {node.id}
    /\ UNCHANGED <<relationships, relationships_mutex, node_existed, cascaded>>
    /\ Frame

update_node(t) == update_node_lock(t) \/ update_node_insert(t)

(***************************************************************************)
(* Database::delete_node                                                   *)
(***************************************************************************)
delete_node_lock_nodes(t) == LockNodes(t, "dn_lock_nodes", "dn_remove")

\* Mutant of delete_node_remove: the cascade runs whether or not the node
\* existed.
delete_node_remove_unconditional(t) ==
    LET id == call[t].arg.id
        existed == id \in DOMAIN nodes
    IN
    /\ Step(t, "dn_remove", "dn_lock_relationships")
    /\ nodes_mutex = t
    /\ nodes' = HashMapRemove(nodes, id)
    /\ node_existed' = [node_existed EXCEPT ![t] = existed]
    /\ UNCHANGED <<relationships, mutexes, ghosts>>
    /\ Frame
    /\ Logged(t, "remove", call[t], RetNone)

\* let node_existed = nodes.remove(&id).is_some();  if node_existed { ...
\* Mutant of delete_node_remove: the node guard is dropped once the node is
\* removed, before the cascade.
delete_node_remove_early_drop(t) ==
    LET id == call[t].arg.id
        existed == id \in DOMAIN nodes
    IN
    /\ Step(t, "dn_remove", IF existed THEN "dn_lock_relationships" ELSE "dn_return")
    /\ nodes_mutex = t
    /\ nodes' = HashMapRemove(nodes, id)
    /\ nodes_mutex' = IF existed THEN NoThread ELSE t
    /\ node_existed' = [node_existed EXCEPT ![t] = existed]
    /\ UNCHANGED <<relationships, relationships_mutex, ghosts>>
    /\ Frame
    /\ Logged(t, "remove", call[t], RetNone)

delete_node_remove(t) ==
    LET id == call[t].arg.id
        existed == id \in DOMAIN nodes
    IN
    /\ Step(t, "dn_remove", IF existed THEN "dn_lock_relationships" ELSE "dn_return")
    /\ nodes_mutex = t
    /\ nodes' = HashMapRemove(nodes, id)
    /\ node_existed' = [node_existed EXCEPT ![t] = existed]
    /\ UNCHANGED <<relationships, mutexes, ghosts>>
    /\ Frame
    /\ Logged(t, "remove", call[t], RetNone)

\* Mutant of delete_node_lock_relationships: the cascade locks the node
\* mutex, which the call already holds, once more.
delete_node_lock_relationships_relock(t) ==
    LockNodes(t, "dn_lock_relationships", "dn_retain")

\* The cascade locks the relationship mutex with the node mutex held.
delete_node_lock_relationships(t) ==
    LockRelationships(t, "dn_lock_relationships", "dn_retain")

\* relationships.retain(...); the guard is dropped at the end of the block.
delete_node_retain(t) ==
    LET id == call[t].arg.id IN
    /\ Step(t, "dn_retain", "dn_return")
    /\ relationships_mutex = t
    /\ relationships' = VecRetain(relationships, id)
    /\ relationships_mutex' = NoThread
    /\ cascaded' = cascaded \cup {id}
    /\ UNCHANGED <<nodes, nodes_mutex, node_existed, deleted>>
    /\ Frame
    /\ Logged(t, "retain", call[t], RetNone)

\* Ok(node_existed): the node guard is dropped on return.
delete_node_return(t) ==
    /\ Return(t, "dn_return", RetBool(node_existed[t]))
    /\ nodes_mutex = t
    /\ nodes_mutex' = NoThread
    /\ deleted' = IF node_existed[t] THEN deleted \cup {call[t].arg.id} ELSE deleted
    /\ node_existed' = [node_existed EXCEPT ![t] = FALSE]
    /\ UNCHANGED <<store, relationships_mutex, cascaded>>
    /\ Frame

delete_node(t) ==
    \/ delete_node_lock_nodes(t)
    \/ delete_node_remove(t)
    \/ delete_node_lock_relationships(t)
    \/ delete_node_retain(t)
    \/ delete_node_return(t)

(***************************************************************************)
(* Database::create_relationship                                           *)
(***************************************************************************)
\* The ids a relationship refers to.
Endpoints(rel) == {rel.source_id, rel.target_id}

create_relationship_lock(t) == LockRelationships(t, "cr_lock", "cr_push")

\* Mutant of create_relationship_push: a record with an endpoint that is not
\* in the node map is not stored.
create_relationship_push_checked(t) ==
    LET relationship == call[t].arg IN
    /\ Return(t, "cr_push", RetId(relationship.id))
    /\ relationships_mutex = t
    /\ relationships' = IF Endpoints(relationship) \subseteq DOMAIN nodes
                        THEN VecPush(relationships, relationship)
                        ELSE relationships
    /\ relationships_mutex' = NoThread
    /\ cascaded' = cascaded \ Endpoints(relationship)
    /\ UNCHANGED <<nodes, nodes_mutex, node_existed, deleted>>
    /\ Frame

create_relationship_push(t) ==
    LET relationship == call[t].arg IN
    /\ Return(t, "cr_push", RetId(relationship.id))
    /\ relationships_mutex = t
    /\ relationships' = VecPush(relationships, relationship)
    /\ relationships_mutex' = NoThread
    /\ cascaded' = cascaded \ Endpoints(relationship)
    /\ UNCHANGED <<nodes, nodes_mutex, node_existed, deleted>>
    /\ Frame

create_relationship(t) == create_relationship_lock(t) \/ create_relationship_push(t)

(***************************************************************************)
(* Database::get_relationships, Database::get_node_relationships           *)
(***************************************************************************)
\* A step that reads the relationship list under its mutex and returns r.
ReadRelationships(t, from, r) ==
    /\ Return(t, from, r)
    /\ relationships_mutex = t
    /\ relationships_mutex' = NoThread
    /\ UNCHANGED <<store, nodes_mutex, node_existed, ghosts>>
    /\ Frame

get_relationships_lock(t) == LockRelationships(t, "gr_lock", "gr_clone")

get_relationships_clone(t) == ReadRelationships(t, "gr_clone", RetRels(relationships))

get_relationships(t) == get_relationships_lock(t) \/ get_relationships_clone(t)

get_node_relationships_lock(t) == LockRelationships(t, "gnr_lock", "gnr_filter")

get_node_relationships_filter(t) ==
    ReadRelationships(t, "gnr_filter",
                      RetRels(VecFilterNode(relationships, call[t].arg.id)))

get_node_relationships(t) ==
    get_node_relationships_lock(t) \/ get_node_relationships_filter(t)

(***************************************************************************)
(* Database::update_relationship                                           *)
(***************************************************************************)
\* Mutant of UpdateRelationshipVec: a missing relationship is appended.
UpdateRelationshipVecUpsert(v, relationship) ==
    LET pos == VecPosition(v, relationship.id) IN
    IF pos # 0 THEN VecSet(v, pos, relationship) ELSE VecPush(v, relationship)

\* if let Some(pos) = position(..) { relationships[pos] = relationship; }
UpdateRelationshipVec(v, relationship) ==
    LET pos == VecPosition(v, relationship.id) IN
    IF pos # 0 THEN VecSet(v, pos, relationship) ELSE v

update_relationship_lock(t) == LockRelationships(t, "ur_lock", "ur_replace")

update_relationship_replace(t) ==
    LET relationship == call[t].arg
        found == VecPosition(relationships, relationship.id) # 0
    IN
    /\ Return(t, "ur_replace", RetUnit)
    /\ relationships_mutex = t
    /\ relationships' = UpdateRelationshipVec(relationships, relationship)
    /\ relationships_mutex' = NoThread
    /\ cascaded' = IF found THEN cascaded \ Endpoints(relationship) ELSE cascaded
    /\ UNCHANGED <<nodes, nodes_mutex, node_existed, deleted>>
    /\ Frame

update_relationship(t) == update_relationship_lock(t) \/ update_relationship_replace(t)

(***************************************************************************)
(* Database::delete_relationship                                           *)
(***************************************************************************)
\* Mutant of DeleteRelationshipVec: every element of that id is removed.
DeleteRelationshipVecAll(v, id) == SelectSeq(v, LAMBDA r : r.id # id)

\* if let Some(pos) = position(..) { relationships.remove(pos); }
DeleteRelationshipVec(v, id) ==
    LET pos == VecPosition(v, id) IN
    IF pos # 0 THEN VecRemove(v, pos) ELSE v

delete_relationship_lock(t) == LockRelationships(t, "dr_lock", "dr_remove")

delete_relationship_remove(t) ==
    LET id == call[t].arg.id IN
    /\ Return(t, "dr_remove", RetBool(VecPosition(relationships, id) # 0))
    /\ relationships_mutex = t
    /\ relationships' = DeleteRelationshipVec(relationships, id)
    /\ relationships_mutex' = NoThread
    /\ UNCHANGED <<nodes, nodes_mutex, node_existed, ghosts>>
    /\ Frame

delete_relationship(t) == delete_relationship_lock(t) \/ delete_relationship_remove(t)

(***************************************************************************)
(* Database::clear_all                                                     *)
(***************************************************************************)
clear_all_lock_nodes(t) == LockNodes(t, "ca_lock_nodes", "ca_lock_relationships")

clear_all_lock_relationships(t) ==
    LockRelationships(t, "ca_lock_relationships", "ca_clear_nodes")

\* Mutant of clear_all_clear_nodes: the node guard is dropped as soon as the
\* node map is cleared.
clear_all_clear_nodes_early_drop(t) ==
    /\ Step(t, "ca_clear_nodes", "ca_clear_relationships")
    /\ nodes_mutex = t
    /\ nodes' = HashMapNew
    /\ nodes_mutex' = NoThread
    /\ UNCHANGED <<relationships, relationships_mutex, node_existed, ghosts>>
    /\ Frame
    /\ Logged(t, "clear_nodes", call[t], RetNone)

\* nodes.clear();
clear_all_clear_nodes(t) ==
    /\ Step(t, "ca_clear_nodes", "ca_clear_relationships")
    /\ nodes_mutex = t
    /\ nodes' = HashMapNew
    /\ UNCHANGED <<relationships, mutexes, node_existed, ghosts>>
    /\ Frame
    /\ Logged(t, "clear_nodes", call[t], RetNone)

\* relationships.clear();
clear_all_clear_relationships(t) ==
    /\ Step(t, "ca_clear_relationships", "ca_drop_relationships")
    /\ relationships_mutex = t
    /\ relationships' = <<>>
    /\ UNCHANGED <<nodes, mutexes, node_existed, ghosts>>
    /\ Frame
    /\ Logged(t, "clear_relationships", call[t], RetNone)

\* On return the guards are dropped in reverse order of declaration:
\* first `relationships`, then `nodes`.
clear_all_drop_relationships(t) ==
    /\ Step(t, "ca_drop_relationships", "ca_drop_nodes")
    /\ relationships_mutex = t
    /\ relationships_mutex' = NoThread
    /\ UNCHANGED <<store, nodes_mutex, node_existed, ghosts>>
    /\ Frame
    /\ Logged(t, "drop_relationships", call[t], RetNone)

clear_all_drop_nodes(t) ==
    /\ Return(t, "ca_drop_nodes", RetUnit)
    /\ nodes_mutex = t
    /\ nodes_mutex' = NoThread
    /\ UNCHANGED <<store, relationships_mutex, node_existed, ghosts>>
    /\ Frame

\* Mutant of clear_all: the relationship mutex is locked before the node
\* mutex.
clear_all_inverted(t) ==
    \/ LockRelationships(t, "ca_lock_nodes", "ca_lock_relationships")
    \/ LockNodes(t, "ca_lock_relationships", "ca_clear_nodes")
    \/ clear_all_clear_nodes(t)
    \/ clear_all_clear_relationships(t)
    \/ clear_all_drop_relationships(t)
    \/ clear_all_drop_nodes(t)

clear_all(t) ==
    \/ clear_all_lock_nodes(t)
    \/ clear_all_lock_relationships(t)
    \/ clear_all_clear_nodes(t)
    \/ clear_all_clear_relationships(t)
    \/ clear_all_drop_relationships(t)
    \/ clear_all_drop_nodes(t)

(***************************************************************************)
(* A caller inside a call.                                                 *)
(***************************************************************************)
\* The steps thread t can take to go on with the call it is in.
Run(t) ==
    \/ create_node(t)
    \/ get_node(t)
    \/ get_all_nodes(t)
    \/ search_nodes(t)
    \/ update_node(t)
    \/ delete_node(t)
    \/ create_relationship(t)
    \/ get_relationships(t)
    \/ get_node_relationships(t)
    \/ update_relationship(t)
    \/ delete_relationship(t)
    \/ clear_all(t)

\* Thread t is inside a call and cannot take its next step: it waits.
Blocked(t) == pc[t] # "idle" /\ ~ENABLED Run(t)

\* The threads that hold a mutex.
Owners == {nodes_mutex, relationships_mutex} \ {NoThread}

(***************************************************************************)
(* The sequential harness: one caller, any call, the store's state at the  *)
(* invocation kept for comparison.                                         *)
(***************************************************************************)
SeqThread == 1

NoScripts == [t \in AllThreads |-> <<>>]

SeqInit ==
    /\ InitStore
    /\ InitThreads
    /\ script = NoScripts
    /\ observe = {"pre", "ret"}

SeqNext ==
    \/ Invoke(SeqThread, AllCalls)
    \/ create_node(SeqThread)
    \/ get_node(SeqThread)
    \/ get_all_nodes(SeqThread)
    \/ search_nodes(SeqThread)
    \/ update_node(SeqThread)
    \/ delete_node(SeqThread)
    \/ create_relationship(SeqThread)
    \/ get_relationships(SeqThread)
    \/ get_node_relationships(SeqThread)
    \/ update_relationship(SeqThread)
    \/ delete_relationship(SeqThread)
    \/ clear_all(SeqThread)

SeqSpec == SeqInit /\ [][SeqNext]_vars

(***************************************************************************)
(* The concurrent harness: NumThreads callers, each invoking any call of   *)
(* the store, any number of times, in any interleaving.                    *)
(***************************************************************************)
Init ==
    /\ InitStore
    /\ InitThreads
    /\ script = NoScripts
    /\ observe = {}

Next ==
    \E t \in Threads :
        \/ Invoke(t, ConcurrentCalls)
        \/ create_node(t)
        \/ update_node(t)
        \/ delete_node(t)
        \/ create_relationship(t)
        \/ update_relationship(t)
        \/ delete_relationship(t)
        \/ clear_all(t)

Spec == Init /\ [][Next]_vars

(***************************************************************************)
(* Properties of single calls, checked under SeqSpec: `pre` is the store   *)
(* and the call at the invocation, the caller is idle again once the call  *)
(* has returned.                                                           *)
(***************************************************************************)
\* The sequential caller has returned from a call of operation op.
Returned(op) == pc[SeqThread] = "idle" /\ pre.call.op = op

\* Map m without key k, stated pointwise.
SameExcept(m, old, k) ==
    /\ DOMAIN m \ {k} = DOMAIN old \ {k}
    /\ \A x \in DOMAIN old \ {k} : m[x] = old[x]

\* C1: delete_node(id) of a stored id returns true, leaves exactly the
\* relationships that have neither endpoint equal to id, in their order,
\* and every other node as it was.
C1_CascadeIntegrity ==
    (Returned("delete_node") /\ pre.call.arg.id \in DOMAIN pre.nodes) =>
        LET id == pre.call.arg.id
            Unrelated(r) == ~(r.source_id = id \/ r.target_id = id)
        IN
        /\ ret[SeqThread] = RetBool(TRUE)
        /\ relationships = SelectSeq(pre.relationships, Unrelated)
        /\ id \notin DOMAIN nodes
        /\ SameExcept(nodes, pre.nodes, id)

\* A delete_node that removed one relationship of two, the other node kept.
C1_Witness ==
    /\ Returned("delete_node")
    /\ pre.call.arg.id \in DOMAIN pre.nodes
    /\ Len(pre.relationships) = 2
    /\ Len(relationships) = 1
    /\ \E i \in 1..2 : pre.relationships[i].source_id = pre.call.arg.id
                       /\ pre.relationships[i].target_id = pre.call.arg.id
    /\ DOMAIN nodes # {}

\* C9: update_node(n) returns Ok(()), stores n under n.id (one more node if
\* the id was absent, as many if it was present), changes no other node and
\* no relationship.
C9_UpdateNodeUpsert ==
    Returned("update_node") =>
        LET n == pre.call.arg IN
        /\ ret[SeqThread] = RetUnit
        /\ n.id \in DOMAIN nodes
        /\ nodes[n.id] = n
        /\ n.id \notin DOMAIN pre.nodes =>
               Cardinality(DOMAIN nodes) = Cardinality(DOMAIN pre.nodes) + 1
        /\ n.id \in DOMAIN pre.nodes =>
               Cardinality(DOMAIN nodes) = Cardinality(DOMAIN pre.nodes)
        /\ SameExcept(nodes, pre.nodes, n.id)
        /\ relationships = pre.relationships

\* An update_node of an id that was not stored, next to a stored node and a
\* stored relationship.
C9_Witness ==
    /\ Returned("update_node")
    /\ pre.call.arg.id \notin DOMAIN pre.nodes
    /\ DOMAIN pre.nodes # {}
    /\ pre.relationships # <<>>
    /\ Cardinality(DOMAIN nodes) = 2

\* No stored relationship of v has this id.
IdMissing(v, id) == \A i \in 1..Len(v) : v[i].id # id

\* C10: update_relationship(r) with an id that no stored relationship has
\* returns Ok(()) and leaves the list and the node map as they were.
C10_UpdateRelationshipMissingNoOp ==
    (Returned("update_relationship")
        /\ IdMissing(pre.relationships, pre.call.arg.id)) =>
        /\ ret[SeqThread] = RetUnit
        /\ relationships = pre.relationships
        /\ nodes = pre.nodes

\* An update_relationship of a missing id on a store that holds a
\* relationship and a node.
C10_Witness ==
    /\ Returned("update_relationship")
    /\ IdMissing(pre.relationships, pre.call.arg.id)
    /\ pre.relationships # <<>>
    /\ DOMAIN pre.nodes # {}

\* The least index of v whose element has this id (for a list that has one).
FirstWithId(v, id) ==
    CHOOSE i \in 1..Len(v) : v[i].id = id /\ \A j \in 1..(i - 1) : v[j].id # id

\* C11: update_relationship(r) with an id that some stored relationship has
\* puts r at the position of the first such element and changes nothing
\* else: same length, every other element where it was (later elements of
\* the same id included), the node map as it was.
C11_UpdateRelationshipInPlace ==
    (Returned("update_relationship")
        /\ ~IdMissing(pre.relationships, pre.call.arg.id)) =>
        LET r == pre.call.arg
            p == FirstWithId(pre.relationships, r.id)
        IN
        /\ ret[SeqThread] = RetUnit
        /\ Len(relationships) = Len(pre.relationships)
        /\ relationships[p] = r
        /\ \A i \in 1..Len(relationships) :
               i # p => relationships[i] = pre.relationships[i]
        /\ nodes = pre.nodes

\* An update_relationship that changed the first of two stored relationships
\* of the same id and left the second, which differs from the new record.
C11_Witness ==
    /\ Returned("update_relationship")
    /\ Len(pre.relationships) = 2
    /\ pre.relationships[1].id = pre.call.arg.id
    /\ pre.relationships[2].id = pre.call.arg.id
    /\ pre.relationships[1] # pre.call.arg
    /\ relationships[1] = pre.call.arg
    /\ relationships[2] # pre.call.arg

\* C12: delete_node(id) returns true exactly when id was stored when the
\* call locked the node map (with one caller: when it was invoked); when it
\* returns false the node map and the relationship list are as they were,
\* relationships that refer to id included.
C12_DeleteReporting ==
    Returned("delete_node") =>
        LET id == pre.call.arg.id IN
        /\ ret[SeqThread] = RetBool(id \in DOMAIN pre.nodes)
        /\ id \notin DOMAIN pre.nodes =>
               nodes = pre.nodes /\ relationships = pre.relationships

\* A delete_node of an id that is not stored, which returned false, on a
\* store that holds another node and a relationship referring to that id.
C12_Witness ==
    /\ Returned("delete_node")
    /\ pre.call.arg.id \notin DOMAIN pre.nodes
    /\ ret[SeqThread] = RetBool(FALSE)
    /\ DOMAIN nodes # {}
    /\ \E i \in 1..Len(relationships) :
           pre.call.arg.id \in Endpoints(relationships[i])

\* C13: delete_relationship(id) returns true exactly when some stored
\* relationship has that id; it then removes the first such element, so the
\* list is one shorter, the elements before it stay where they were and the
\* elements after it move up by one; when it returns false the list is as it
\* was; the node map is as it was in both cases.
C13_DeleteRelationshipFirst ==
    Returned("delete_relationship") =>
        LET id == pre.call.arg.id
            old == pre.relationships
            found == ~IdMissing(old, id)
        IN
        /\ ret[SeqThread] = RetBool(found)
        /\ nodes = pre.nodes
        /\ ~found => relationships = old
        /\ found =>
               LET p == FirstWithId(old, id) IN
               /\ Len(relationships) = Len(old) - 1
               /\ \A i \in 1..Len(relationships) :
                      relationships[i] = IF i < p THEN old[i] ELSE old[i + 1]

\* A delete_relationship that removed the first of two different stored
\* relationships of the same id and kept the second.
C13_Witness ==
    /\ Returned("delete_relationship")
    /\ ret[SeqThread] = RetBool(TRUE)
    /\ Len(pre.relationships) = 2
    /\ pre.relationships[1].id = pre.call.arg.id
    /\ pre.relationships[2].id = pre.call.arg.id
    /\ pre.relationships[1] # pre.relationships[2]
    /\ relationships = <<pre.relationships[2]>>
    /\ DOMAIN nodes # {}

\* C16: create_relationship(r) returns r.id and leaves the old list with r
\* added as its last element, whatever is stored already, and the node map
\* as it was; get_relationships returns the list as stored, which is
\* therefore in insertion order, and changes nothing.
C16_CreateRelationshipAppends ==
    /\ Returned("create_relationship") =>
           /\ ret[SeqThread] = RetId(pre.call.arg.id)
           /\ relationships = pre.relationships \o <<pre.call.arg>>
           /\ Len(relationships) = Len(pre.relationships) + 1
           /\ nodes = pre.nodes
    /\ Returned("get_relationships") =>
           /\ ret[SeqThread] = RetRels(pre.relationships)
           /\ relationships = pre.relationships
           /\ nodes = pre.nodes

\* A create_relationship of a record whose source and target are those of a
\* stored relationship with another id: both are stored, the new one last.
C16_Witness ==
    /\ Returned("create_relationship")
    /\ Len(pre.relationships) = 1
    /\ pre.relationships[1].source_id = pre.call.arg.source_id
    /\ pre.relationships[1].target_id = pre.call.arg.target_id
    /\ pre.relationships[1].id # pre.call.arg.id
    /\ relationships = <<pre.relationships[1], pre.call.arg>>

\* The endpoints of r that are not in node map ns.
AbsentEndpoints(r, ns) == Endpoints(r) \ DOMAIN ns

\* How many elements of v are this record.
CountRecord(v, r) == Cardinality({i \in 1..Len(v) : v[i] = r})

\* Call c, which has returned, did not remove record r: the list holds r as
\* often as before, or c was an update_relationship of r's id, which removes
\* no element.
NotRemoved(r, c) ==
    IF c.op = "update_relationship" /\ c.arg.id = r.id
    THEN Len(relationships) = Len(pre.relationships)
    ELSE CountRecord(relationships, r) >= CountRecord(pre.relationships, r)

\* C17 as stated: a stored relationship r that refers to an id absent from
\* the node map is removed by no call except delete_relationship, clear_all
\* and a delete_node of that absent id that finds it stored.
C17_OnlyAbsentIdDeleteRemoves ==
    (pc[SeqThread] = "idle") =>
        \A i \in 1..Len(pre.relationships) :
            LET r == pre.relationships[i]
                absent == AbsentEndpoints(r, pre.nodes)
                c == pre.call
            IN
            (/\ absent # {}
             /\ c.op \notin {"delete_relationship", "clear_all"}
             /\ ~(/\ c.op = "delete_node"
                  /\ c.arg.id \in absent
                  /\ ret[SeqThread] = RetBool(TRUE))) =>
                NotRemoved(r, c)

\* C17 as amended: create_relationship(r) stores r whatever the node map
\* holds; a stored relationship r that refers to an id absent from the node
\* map is removed by no call except delete_relationship, clear_all and a
\* delete_node of one of r's endpoints that finds it stored; of the other
\* calls only an update_relationship of r's id changes it, in place.
C17_NoForeignKeyCheck ==
    /\ Returned("create_relationship") =>
           /\ ret[SeqThread] = RetId(pre.call.arg.id)
           /\ Len(relationships) = Len(pre.relationships) + 1
           /\ relationships[Len(relationships)] = pre.call.arg
    /\ (pc[SeqThread] = "idle") =>
           \A i \in 1..Len(pre.relationships) :
               LET r == pre.relationships[i]
                   c == pre.call
               IN
               (/\ AbsentEndpoints(r, pre.nodes) # {}
                /\ c.op \notin {"delete_relationship", "clear_all"}
                /\ ~(/\ c.op = "delete_node"
                     /\ c.arg.id \in Endpoints(r)
                     /\ c.arg.id \in DOMAIN pre.nodes)) =>
                   NotRemoved(r, c)

\* A relationship between two ids that are not in the node map was stored,
\* and a delete_node of another id, which was stored and cascaded, kept it.
C17_Witness ==
    /\ Returned("delete_node")
    /\ ret[SeqThread] = RetBool(TRUE)
    /\ Len(relationships) < Len(pre.relationships)
    /\ \E i \in 1..Len(relationships) :
           /\ Endpoints(relationships[i]) \cap DOMAIN pre.nodes = {}
           /\ CountRecord(pre.relationships, relationships[i]) > 0

\* C18: create_node(n) returns n.id and stores n under n.id: one more node
\* if the id was absent, the old record replaced and as many nodes if it
\* was present; every other node and the relationship list are as they were.
C18_CreateNodeOverwrites ==
    Returned("create_node") =>
        LET n == pre.call.arg IN
        /\ ret[SeqThread] = RetId(n.id)
        /\ n.id \in DOMAIN nodes
        /\ nodes[n.id] = n
        /\ n.id \notin DOMAIN pre.nodes =>
               Cardinality(DOMAIN nodes) = Cardinality(DOMAIN pre.nodes) + 1
        /\ n.id \in DOMAIN pre.nodes =>
               Cardinality(DOMAIN nodes) = Cardinality(DOMAIN pre.nodes)
        /\ SameExcept(nodes, pre.nodes, n.id)
        /\ relationships = pre.relationships

\* A create_node that replaced a different record stored under the same id,
\* next to another node and a stored relationship.
C18_Witness ==
    /\ Returned("create_node")
    /\ pre.call.arg.id \in DOMAIN pre.nodes
    /\ pre.nodes[pre.call.arg.id] # pre.call.arg
    /\ nodes[pre.call.arg.id] = pre.call.arg
    /\ Cardinality(DOMAIN nodes) = 2
    /\ relationships # <<>>

\* The operations that read.
ReadOps == {"get_node", "get_all_nodes", "search_nodes", "get_relationships",
            "get_node_relationships"}

\* C19: get_node(id) returns the node stored under id if there is one and
\* nothing otherwise, as an Option and no error; right after create_node(n)
\* or update_node(n) the lookup of n.id gives n; every reading call leaves
\* the node map and the relationship list as they were.
C19_ReadsArePure ==
    /\ Returned("get_node") =>
           LET id == pre.call.arg.id IN
           /\ ret[SeqThread].kind = "option"
           /\ id \in DOMAIN pre.nodes => ret[SeqThread].v = {pre.nodes[id]}
           /\ id \notin DOMAIN pre.nodes => ret[SeqThread].v = {}
    /\ (Returned("create_node") \/ Returned("update_node")) =>
           HashMapGet(nodes, pre.call.arg.id) = {pre.call.arg}
    /\ \A op \in ReadOps :
           Returned(op) => nodes = pre.nodes /\ relationships = pre.relationships

\* A get_node that returned the node stored under its id, one of two stored
\* nodes, with a relationship stored too.
C19_Witness ==
    /\ Returned("get_node")
    /\ pre.call.arg.id \in DOMAIN nodes
    /\ ret[SeqThread] = RetOption({nodes[pre.call.arg.id]})
    /\ Cardinality(DOMAIN nodes) = 2
    /\ relationships # <<>>

\* C20: get_node_relationships(node_id) returns the stored relationships
\* that have node_id as source or as target, in stored order, each stored
\* element once (so a self-loop once, and a relationship from A to B both
\* for A and for B), and changes nothing.
C20_NodeRelationshipsSubsequence ==
    Returned("get_node_relationships") =>
        LET node_id == pre.call.arg.id
            old == pre.relationships
            Touches(r) == r.source_id = node_id \/ r.target_id = node_id
            hits == {i \in 1..Len(old) : Touches(old[i])}
        IN
        /\ ret[SeqThread] = RetRels(SelectSeq(old, Touches))
        /\ Len(ret[SeqThread].v) = Cardinality(hits)
        /\ \A i \in hits : \E j \in 1..Len(ret[SeqThread].v) : ret[SeqThread].v[j] = old[i]
        /\ relationships = old
        /\ nodes = pre.nodes

\* A get_node_relationships that returned, once, a self-loop of its node
\* and left out the other stored relationship, which does not touch the node.
C20_Witness ==
    /\ Returned("get_node_relationships")
    /\ Len(relationships) = 2
    /\ \E i, j \in 1..2 :
           /\ i # j
           /\ Endpoints(relationships[i]) = {pre.call.arg.id}
           /\ pre.call.arg.id \notin Endpoints(relationships[j])
           /\ ret[SeqThread] = RetRels(<<relationships[i]>>)

(***************************************************************************)
(* The locking harness: NumThreads callers, each invoking any operation    *)
(* of the store, reads included, any number of times, all on the same node *)
(* and relationship.                                                       *)
(***************************************************************************)
LockNext ==
    \E t \in Threads :
        \/ Invoke(t, PlainCalls)
        \/ create_node(t)
        \/ get_node(t)
        \/ get_all_nodes(t)
        \/ search_nodes(t)
        \/ update_node(t)
        \/ delete_node(t)
        \/ create_relationship(t)
        \/ get_relationships(t)
        \/ get_node_relationships(t)
        \/ update_relationship(t)
        \/ delete_relationship(t)
        \/ clear_all(t)

LockSpec == Init /\ [][LockNext]_vars

(***************************************************************************)
(* Properties of the concurrent harnesses: C2 is checked under Spec, C4    *)
(* and C7 under LockSpec.                                                  *)
(***************************************************************************)
\* No stored relationship has id as an endpoint.
Unreferenced(id) ==
    \A i \in 1..Len(relationships) :
        relationships[i].source_id # id /\ relationships[i].target_id # id

\* C2 as stated: once delete_node(id) has returned true and id has not been
\* inserted again, no stored relationship has id as an endpoint.
C2_NoDanglingAfterDelete == \A id \in deleted : Unreferenced(id)

\* C2 as amended: once the cascade of delete_node(id) has run, no stored
\* relationship has id as an endpoint until a create_relationship or an
\* update_relationship writes one.
C2_NoDanglingUntilWritten == \A id \in cascaded : Unreferenced(id)

\* A delete_node has returned true, its cascade stands, and the list still
\* holds a relationship between other nodes.
C2_Witness ==
    \E id \in deleted \cap cascaded :
        /\ relationships # <<>>
        /\ \A t \in Threads : pc[t] = "idle"

\* C4: an owner of the relationship mutex never waits (so the node mutex is
\* never requested with the relationship mutex held), and no state is
\* reached in which some caller waits while every owner of a mutex waits.
C4_LockOrderNoDeadlock ==
    /\ \A t \in Threads : relationships_mutex = t => ENABLED Run(t)
    /\ ~(/\ \E t \in Threads : Blocked(t)
         /\ \A o \in Owners : Blocked(o))

\* clear_all holds the node mutex and waits for the relationship mutex,
\* which another caller holds for a write to the list.
C4_Witness ==
    \E t, u \in Threads :
        /\ pc[t] = "ca_lock_relationships"
        /\ nodes_mutex = t
        /\ Blocked(t)
        /\ relationships_mutex = u
        /\ pc[u] \in {"cr_push", "ur_replace", "dr_remove"}

\* C7: clear_all holds both mutexes from before the first clear until both
\* collections are empty, and the node mutex until it returns: whenever one
\* of the two collections has been cleared by it and the other not yet, the
\* node mutex is held by it.
C7_ClearAllAtomic ==
    \A t \in Threads :
        /\ pc[t] \in {"ca_clear_nodes", "ca_clear_relationships"} =>
               nodes_mutex = t /\ relationships_mutex = t
        /\ pc[t] = "ca_clear_relationships" => nodes = HashMapNew
        /\ pc[t] = "ca_drop_relationships" =>
               /\ nodes = HashMapNew /\ relationships = <<>>
               /\ nodes_mutex = t /\ relationships_mutex = t
        /\ pc[t] = "ca_drop_nodes" => nodes = HashMapNew /\ nodes_mutex = t

\* clear_all has emptied the node map and not yet the relationship list,
\* while another caller waits for the node mutex.
C7_Witness ==
    \E t, u \in Threads :
        /\ pc[t] = "ca_clear_relationships"
        /\ relationships # <<>>
        /\ pc[u] \in {"cn_lock", "un_lock"}

(***************************************************************************)
(* Stores that earlier calls can have built.                               *)
(***************************************************************************)
\* The node maps over the ids of `ids`: every node stored under its own id.
NodeMaps(ids) ==
    UNION {{m \in [S -> Nodes] : \A k \in S : m[k].id = k} : S \in SUBSET ids}

\* The relationship lists of at most n elements.
RelLists(n) == UNION {[1..k -> Relationships] : k \in 0..n}

\* Every thread of ts has returned from the last call of its script.
AllDone(ts) == \A t \in ts : pc[t] = "idle" /\ script[t] = <<>>

\* The first step of thread t that the log records as `what`, 0 if none.
LogIndex(t, what) ==
    IF \E i \in 1..Len(log) : log[i].thread = t /\ log[i].what = what
    THEN CHOOSE i \in 1..Len(log) :
             /\ log[i].thread = t /\ log[i].what = what
             /\ \A j \in 1..(i - 1) : ~(log[j].thread = t /\ log[j].what = what)
    ELSE 0

(***************************************************************************)
(* The project file of load_project, once parsed, and the store calls the  *)
(* handler makes for it.                                                   *)
(***************************************************************************)
Loader == 1

\* The node arrays a project file can list, at most n long.
NodeLists(n) == UNION {[1..k -> Nodes] : k \in 0..n}

\* ProjectData, as parsed from the file.
ProjectData == [nodes : NodeLists(MaxNodeId), relationships : RelLists(MaxRels)]

\* for node in project_data.nodes { state.create_node(node) }
CreateNodeCalls(ns) == [i \in 1..Len(ns) |-> Call("create_node", ns[i])]

\* for relationship in project_data.relationships { state.create_relationship(..) }
CreateRelationshipCalls(rs) == [i \in 1..Len(rs) |-> Call("create_relationship", rs[i])]

\* Mutant of load_project: the store is not cleared first.
load_project_keep(project_data) ==
    CreateNodeCalls(project_data.nodes)
        \o CreateRelationshipCalls(project_data.relationships)

\* The store calls of load_project, in the order the handler makes them.
load_project(project_data) ==
    <<Call("clear_all", NoArg)>>
        \o CreateNodeCalls(project_data.nodes)
        \o CreateRelationshipCalls(project_data.relationships)

(***************************************************************************)
(* The race harness: one caller deletes a stored node A while another      *)
(* creates a relationship that refers to A.                                *)
(***************************************************************************)
RaceDeleter == 1
RaceCreator == 2

RaceInit ==
    /\ InitThreads
    /\ nodes_mutex = NoThread
    /\ relationships_mutex = NoThread
    /\ observe = {"log", "ret"}
    /\ relationships \in RelLists(MaxRels - 1)
    /\ \E A \in NodeIds :
           /\ nodes \in {m \in NodeMaps(NodeIds) : A \in DOMAIN m}
           /\ \E r \in {x \in Relationships : A \in Endpoints(x)} :
                  script = [t \in AllThreads |->
                               IF t = RaceDeleter THEN <<Call("delete_node", IdArg(A))>>
                               ELSE IF t = RaceCreator THEN <<Call("create_relationship", r)>>
                               ELSE <<>>]

RaceNext ==
    \E t \in Threads :
        \/ InvokeScript(t)
        \/ delete_node(t)
        \/ create_relationship(t)

RaceSpec == RaceInit /\ [][RaceNext]_vars

\* C3: delete_node(A) and create_relationship(r), r referring to A, have
\* both returned. If create_relationship locked the relationship mutex after
\* the cascade's retain, A is gone and r is stored (as the last element); if
\* it locked the mutex before the cascade did, r is not stored and nothing
\* refers to A.
C3_DocumentedRace ==
    AllDone(Threads) =>
        LET A == log[LogIndex(RaceDeleter, "invoke")].call.arg.id
            r == log[LogIndex(RaceCreator, "invoke")].call.arg
            retained == LogIndex(RaceDeleter, "retain")
            cascadeLock == LogIndex(RaceDeleter, "lock_relationships")
            createLock == LogIndex(RaceCreator, "lock_relationships")
        IN
        /\ ret[RaceDeleter] = RetBool(TRUE)
        /\ ret[RaceCreator] = RetId(r.id)
        /\ A \notin DOMAIN nodes
        /\ retained < createLock =>
               /\ relationships # <<>>
               /\ relationships[Len(relationships)] = r
        /\ createLock < cascadeLock =>
               /\ \A i \in 1..Len(relationships) : relationships[i] # r
               /\ \A i \in 1..Len(relationships) :
                      relationships[i].source_id # A /\ relationships[i].target_id # A
        /\ retained < createLock \/ createLock < cascadeLock

\* Both calls have returned, create_relationship having locked the mutex
\* after the retain: A is absent and the stored r refers to it.
C3_Witness ==
    /\ AllDone(Threads)
    /\ LogIndex(RaceDeleter, "retain") < LogIndex(RaceCreator, "lock_relationships")
    /\ LogIndex(RaceDeleter, "retain") > 0
    /\ ret[RaceDeleter] = RetBool(TRUE)
    /\ \E i \in 1..Len(relationships) :
           \E id \in Endpoints(relationships[i]) : id \notin DOMAIN nodes

(***************************************************************************)
(* The stress harness: NumCreators callers each create a fresh node while  *)
(* NumDeleters callers each delete a node stored before they started.      *)
(***************************************************************************)
\* The ids stored at the start: one per deleter, and one that stays.
PreExisting == 1..(NumDeleters + 1)

StressNode(id) == [id |-> id, label |-> OneLabel]

Creators == 1..NumCreators
Deleters == (NumCreators + 1)..(NumCreators + NumDeleters)

\* The id a creator creates, the id a deleter deletes.
CreatedBy(t) == NumDeleters + 1 + t
DeletedBy(t) == t - NumCreators

StressInit ==
    /\ InitThreads
    /\ nodes_mutex = NoThread
    /\ relationships_mutex = NoThread
    /\ observe = {"ret"}
    /\ nodes = [id \in PreExisting |-> StressNode(id)]
    /\ relationships \in RelLists(MaxRels - 1)
    /\ script = [t \in AllThreads |->
                    IF t \in Creators
                    THEN <<Call("create_node", StressNode(CreatedBy(t)))>>
                    ELSE IF t \in Deleters
                    THEN <<Call("delete_node", IdArg(DeletedBy(t)))>>
                    ELSE <<>>]

StressNext ==
    \E t \in StressThreads :
        \/ InvokeScript(t)
        \/ create_node(t)
        \/ delete_node(t)

StressSpec == StressInit /\ [][StressNext]_vars

\* C5: when every creator and every deleter has returned, the node map
\* holds exactly the nodes stored at the start that no deleter deleted and
\* the nodes the creators created, and every delete_node returned true.
C5_StressSurvivors ==
    AllDone(StressThreads) =>
        /\ DOMAIN nodes = (PreExisting \ {DeletedBy(t) : t \in Deleters})
                              \cup {CreatedBy(t) : t \in Creators}
        /\ \A id \in DOMAIN nodes : nodes[id] = [id |-> id, label |-> OneLabel]
        /\ \A t \in Deleters : ret[t] = RetBool(TRUE)
        /\ \A t \in Creators : ret[t] = RetId(CreatedBy(t))

\* Every creator and every deleter has returned: the node that stays and
\* the created nodes are stored.
C5_Witness ==
    /\ AllDone(StressThreads)
    /\ Cardinality(DOMAIN nodes) = NumCreators + 1
    /\ \A t \in Deleters : ret[t] = RetBool(TRUE)

(***************************************************************************)
(* The history harness: the callers run scripts of calls that touch one    *)
(* collection only, on a new store, and every invocation and return is     *)
(* logged.                                                                 *)
(***************************************************************************)
OtherLabel == CHOOSE l \in Labels : l # OneLabel

\* Calls that touch only the node map; delete_node is called for ids that no
\* call of the scripts stores.
LinNodeCalls ==
    {Call("create_node", [id |-> i, label |-> OneLabel]) : i \in NodeIds}
    \cup {Call("update_node", [id |-> i, label |-> OtherLabel]) : i \in NodeIds}
    \cup {Call("get_node", IdArg(i)) : i \in NodeIds}
    \cup {Call("get_all_nodes", NoArg)}
    \cup {Call("delete_node", IdArg(i)) : i \in NodeIds}

\* Calls that touch only the relationship list.
LinRelCalls ==
    {c \in RelCalls : c.op \in {"create_relationship", "update_relationship"}
                          => c.arg.target_id = 1}

\* The scripts: MaxScript calls for the first caller, one for each other.
Scripts(calls) ==
    {sc \in [Threads -> UNION {[1..k -> calls] : k \in 1..MaxScript}] :
        \A t \in Threads : Len(sc[t]) = IF t = 1 THEN MaxScript ELSE 1}

Stores(c) == c.op \in {"create_node", "update_node"}

\* No delete_node of the scripts finds its id.
DeletesAbsent(sc) ==
    \A t, u \in Threads : \A i \in 1..Len(sc[t]) : \A j \in 1..Len(sc[u]) :
        (sc[t][i].op = "delete_node" /\ Stores(sc[u][j])) =>
            sc[u][j].arg.id # sc[t][i].arg.id

LinInit ==
    /\ InitStore
    /\ InitThreads
    /\ observe = {"log"}
    /\ \E sc \in {x \in Scripts(LinNodeCalls) : DeletesAbsent(x)}
                 \cup Scripts(LinRelCalls) :
           script = [t \in AllThreads |-> IF t \in Threads THEN sc[t] ELSE <<>>]

LinNext ==
    \E t \in Threads :
        \/ InvokeScript(t)
        \/ create_node(t)
        \/ get_node(t)
        \/ get_all_nodes(t)
        \/ update_node(t)
        \/ delete_node_lock_nodes(t)
        \/ delete_node_remove(t)
        \/ delete_node_return(t)
        \/ create_relationship(t)
        \/ get_relationships(t)
        \/ get_node_relationships(t)
        \/ update_relationship(t)
        \/ delete_relationship(t)

LinSpec == LinInit /\ [][LinNext]_vars

(***************************************************************************)
(* The sequential store against which histories are judged: what each call *)
(* returns and leaves when it runs alone, as the store's contract states.  *)
(***************************************************************************)
AtomicStore(ns, rs) == [nodes |-> ns, relationships |-> rs]

\* The list without its first element of this id, if it has one.
WithoutFirst(rs, id) ==
    IF \E i \in 1..Len(rs) : rs[i].id = id
    THEN LET p == CHOOSE i \in 1..Len(rs) :
                      rs[i].id = id /\ \A j \in 1..(i - 1) : rs[j].id # id
         IN [i \in 1..(Len(rs) - 1) |-> IF i < p THEN rs[i] ELSE rs[i + 1]]
    ELSE rs

\* The list with its first element of r's id, if it has one, replaced by r.
WithFirstReplaced(rs, r) ==
    [i \in 1..Len(rs) |->
        IF rs[i].id = r.id /\ \A j \in 1..(i - 1) : rs[j].id # r.id
        THEN r ELSE rs[i]]

\* The store after call c has run alone on store st.
AtomicEffect(st, c) ==
    LET ns == st.nodes
        rs == st.relationships
        a == c.arg
        Unrelated(r) == r.source_id # a.id /\ r.target_id # a.id
    IN
    CASE c.op \in {"create_node", "update_node"} ->
             AtomicStore((a.id :> a) @@ ns, rs)
      [] c.op = "delete_node" ->
             IF a.id \in DOMAIN ns
             THEN AtomicStore([k \in DOMAIN ns \ {a.id} |-> ns[k]],
                              SelectSeq(rs, Unrelated))
             ELSE st
      [] c.op = "create_relationship" -> AtomicStore(ns, rs \o <<a>>)
      [] c.op = "update_relationship" -> AtomicStore(ns, WithFirstReplaced(rs, a))
      [] c.op = "delete_relationship" -> AtomicStore(ns, WithoutFirst(rs, a.id))
      [] c.op = "clear_all" -> AtomicStore(<<>>, <<>>)
      [] OTHER -> st

\* What call c returns when it runs alone on store st.
AtomicResult(st, c) ==
    LET ns == st.nodes
        rs == st.relationships
        a == c.arg
        Related(r) == r.source_id = a.id \/ r.target_id = a.id
    IN
    CASE c.op \in {"create_node", "create_relationship"} -> RetId(a.id)
      [] c.op \in {"update_node", "update_relationship", "clear_all"} -> RetUnit
      [] c.op = "get_node" ->
             RetOption({n \in {ns[k] : k \in DOMAIN ns} : n.id = a.id})
      [] c.op = "get_all_nodes" -> RetNodes({ns[k] : k \in DOMAIN ns})
      [] c.op = "delete_node" -> RetBool(a.id \in DOMAIN ns)
      [] c.op = "delete_relationship" ->
             RetBool(\E i \in 1..Len(rs) : rs[i].id = a.id)
      [] c.op = "get_relationships" -> RetRels(rs)
      [] c.op = "get_node_relationships" -> RetRels(SelectSeq(rs, Related))

\* The invocations of the log, and the return that ends each.
Invocations == {i \in 1..Len(log) : log[i].what = "invoke"}

ReturnOf(i) ==
    CHOOSE j \in (i + 1)..Len(log) :
        /\ log[j].thread = log[i].thread /\ log[j].what = "return"
        /\ \A k \in (i + 1)..(j - 1) :
               ~(log[k].thread = log[i].thread /\ log[k].what = "return")

\* The orders in which the logged calls can be lined up: each call once, a
\* call that returned before another was invoked placed before it.
RealTimeOrders ==
    LET n == Cardinality(Invocations) IN
    {o \in [1..n -> Invocations] :
        /\ \A p, q \in 1..n : p # q => o[p] # o[q]
        /\ \A p, q \in 1..n : p < q => ~(ReturnOf(o[q]) < o[p])}

\* Running the calls alone, in order o from position k on store st, gives
\* every call the value it returned and ends in the store `final`.
RECURSIVE Explains(_, _, _, _)
Explains(o, k, st, final) ==
    IF k > Len(o) THEN st = final
    ELSE LET c == log[o[k]].call IN
         /\ AtomicResult(st, c) = log[ReturnOf(o[k])].ret
         /\ Explains(o, k + 1, AtomicEffect(st, c), final)

C14_NodeIdUnique ==
    /\ \A k \in DOMAIN nodes : nodes[k].id = k
    /\ Cardinality({n.id : n \in HashMapValues(nodes)}) = Cardinality(DOMAIN nodes)
    /\ \A i \in 1..Len(log) :
           (log[i].what = "return" /\ log[i].call.op = "get_all_nodes") =>
               \A a, b \in log[i].ret.v : a.id = b.id => a = b

\* Two callers stored different records under the same id in overlapping
\* calls (create_node and update_node), another node is stored as well.
C14_Witness ==
    /\ AllDone(Threads)
    /\ Cardinality(DOMAIN nodes) = 2
    /\ \E i, j \in Invocations :
           /\ log[i].thread # log[j].thread
           /\ log[i].call.op = "create_node"
           /\ log[j].call.op = "update_node"
           /\ log[i].call.arg.id = log[j].call.arg.id
           /\ log[i].call.arg # log[j].call.arg
           /\ i < j /\ j < ReturnOf(i)
           /\ log[i].call.arg.id \in DOMAIN nodes

(***************************************************************************)
(* The termination harness: on a store that holds a node and a             *)
(* relationship, every caller makes one call, of any operation; a caller   *)
(* that can take a step of its call eventually takes one.                  *)
(***************************************************************************)
LiveInit ==
    /\ InitThreads
    /\ nodes_mutex = NoThread
    /\ relationships_mutex = NoThread
    /\ observe = {}
    /\ nodes = [id \in {1} |-> FirstNode]
    /\ relationships = <<FirstRelationship>>
    /\ \E sc \in [Threads -> PlainCalls] :
           script = [t \in AllThreads |-> IF t \in Threads THEN <<sc[t]>> ELSE <<>>]

LiveNext ==
    \E t \in Threads :
        \/ InvokeScript(t)
        \/ create_node(t)
        \/ get_node(t)
        \/ get_all_nodes(t)
        \/ search_nodes(t)
        \/ update_node(t)
        \/ delete_node(t)
        \/ create_relationship(t)
        \/ get_relationships(t)
        \/ get_node_relationships(t)
        \/ update_relationship(t)
        \/ delete_relationship(t)
        \/ clear_all(t)

Fairness == \A t \in Threads : WF_vars(Run(t))

LiveSpec == LiveInit /\ [][LiveNext]_vars /\ Fairness

\* C8: a caller inside a call that cannot take its next step waits for a
\* mutex that another caller holds, and every call that is invoked returns.
C8_Termination ==
    /\ [](\A t \in Threads : Blocked(t) => Owners \ {t} # {})
    /\ \A t \in Threads : (pc[t] # "idle") ~> (pc[t] = "idle")

\* A delete_node that holds the node mutex waits for the relationship
\* mutex, which another caller holds; a third mutex or resource is not
\* involved.
C8_Witness ==
    \E t, u \in Threads :
        /\ t # u
        /\ pc[t] = "dn_lock_relationships"
        /\ Blocked(t)
        /\ relationships_mutex = u

(***************************************************************************)
(* The search harness: one caller searches a node map whose nodes carry a  *)
(* label, a description or none, and tags.                                 *)
(***************************************************************************)
MaxTags == 1

\* The strings labels, descriptions and tags are drawn from.
Strings == {<<"A">>, <<"b">>, <<"a", "B">>}

TagLists == UNION {[1..k -> Strings \ {<<"a", "B">>}] : k \in 0..MaxTags}

\* Nodes with a description (Some) and nodes without one (None).
SearchNodes ==
    [id : NodeIds, label : Labels, description : {<<"b">>, <<"a", "B">>}, tags : TagLists]
    \cup [id : NodeIds, label : Labels, tags : TagLists]

SearchQueries == Queries \cup {<<"a", "b">>, <<"b", "a">>}

SearchCalls == {Call("search_nodes", QueryArg(q)) : q \in SearchQueries}

SearchInit ==
    /\ InitThreads
    /\ nodes_mutex = NoThread
    /\ relationships_mutex = NoThread
    /\ \E S \in SUBSET NodeIds : \E m \in [S -> SearchNodes] :
           /\ \A k \in S : m[k].id = k
           /\ nodes = m
    /\ relationships = <<>>
    /\ script = NoScripts
    /\ observe = {"pre", "ret"}

SearchNext ==
    \/ Invoke(SeqThread, SearchCalls)
    \/ search_nodes(SeqThread)

SearchSpec == SearchInit /\ [][SearchNext]_vars

\* Lower case, letter by letter, and substring, index by index.
Lower(str) ==
    [i \in 1..Len(str) |->
        IF str[i] = "A" THEN "a" ELSE IF str[i] = "B" THEN "b" ELSE str[i]]

OccursIn(pat, str) ==
    \E k \in 0..(Len(str) - Len(pat)) : \A j \in 1..Len(pat) : str[k + j] = pat[j]

\* The node matches the query, as the specification words it.
SearchHit(node, q) ==
    \/ OccursIn(Lower(q), Lower(node.label))
    \/ "description" \in DOMAIN node /\ OccursIn(Lower(q), Lower(node.description))
    \/ \E i \in 1..Len(node.tags) : OccursIn(Lower(q), Lower(node.tags[i]))

\* C21: search_nodes(q) returns exactly the stored nodes whose lower-cased
\* label, lower-cased description (when there is one) or one of whose
\* lower-cased tags has the lower-cased q as a substring; the empty query
\* returns every stored node; the store is left as it was.
C21_SearchCorrect ==
    Returned("search_nodes") =>
        LET q == pre.call.arg.query
            stored == {pre.nodes[k] : k \in DOMAIN pre.nodes}
        IN
        /\ ret[SeqThread] = RetNodes({n \in stored : SearchHit(n, q)})
        /\ q = <<>> => ret[SeqThread].v = stored
        /\ nodes = pre.nodes /\ relationships = pre.relationships

\* A search for "B" returned a node that only a tag "b" makes match and
\* left out a stored node without description and tags whose label is "A".
C21_Witness ==
    /\ Returned("search_nodes")
    /\ pre.call.arg.query = <<"B">>
    /\ \E n \in ret[SeqThread].v :
           /\ n.label = <<"A">>
           /\ "description" \notin DOMAIN n
           /\ n.tags = <<<<"b">>>>
    /\ \E k \in DOMAIN nodes :
           /\ nodes[k] \notin ret[SeqThread].v
           /\ "description" \notin DOMAIN nodes[k]
           /\ nodes[k].tags = <<>>

(***************************************************************************)
(* The command layer (lib.rs): what the handlers parse and build before    *)
(* they call the store.                                                    *)
(***************************************************************************)
\* Result<T, String>
Ok(v) == [kind |-> "ok", v |-> v]
Err(msg) == [kind |-> "err", v |-> msg]

\* Identifiers as text. A well-formed text has UuidLen digits; it stands for
\* the number its digits spell, most significant first.
UuidLen == 2
UuidDigits == <<"0", "1", "2", "3">>

DigitValue(ch) == (CHOOSE i \in 1..Len(UuidDigits) : UuidDigits[i] = ch) - 1

WellFormed(text) ==
    /\ Len(text) = UuidLen
    /\ \A i \in 1..Len(text) : \E j \in 1..Len(UuidDigits) : UuidDigits[j] = text[i]

\* Uuid::parse_str(&text).map_err(|e| e.to_string())
\* Mutant of ParseUuid: a malformed text is taken for the nil identifier.
ParseUuidLenient(text) ==
    IF WellFormed(text)
    THEN Ok(DigitValue(text[1]) * Len(UuidDigits) + DigitValue(text[2]))
    ELSE Ok(0)

ParseUuid(text) ==
    IF WellFormed(text)
    THEN Ok(DigitValue(text[1]) * Len(UuidDigits) + DigitValue(text[2]))
    ELSE Err("invalid UUID")

\* id.to_string()
UuidToString(id) ==
    <<UuidDigits[(id \div Len(UuidDigits)) + 1], UuidDigits[(id % Len(UuidDigits)) + 1]>>

\* The texts requests carry as identifiers: those of the ids, of one id that
\* is never stored, and malformed ones.
IdTexts ==
    {UuidToString(i) : i \in NodeIds \cup RelIds}
    \cup {UuidToString(0), <<>>, <<"1">>, <<"0", "x">>, <<"0", "1", "0">>}

\* enum NodeType, enum RelationType, as the handlers' match arms spell them.
NodeTypes == {"Person", "Organization", "CryptoWallet", "SocialAccount", "Domain",
              "IpAddress", "Email", "Phone", "Document", "Event"}
RelationTypes == {"Owns", "Controls", "TransactsWith", "MemberOf", "ConnectedTo",
                  "SameAs", "RelatedTo", "ParentOf", "ChildOf"}

\* Mutant of ParseNodeType: every tag is taken for a node type.
ParseNodeTypeAny(text) == Ok(text)

\* match request.node_type.as_str() { ... _ => return Err(..) }
ParseNodeType(text) ==
    IF text \in NodeTypes THEN Ok(text) ELSE Err("Invalid node type")

\* match request.relation_type.as_str() { ... _ => return Err(..) }
ParseRelationType(text) ==
    IF text \in RelationTypes THEN Ok(text) ELSE Err("Invalid relationship type")

\* The type tags requests carry: valid ones and invalid ones.
NodeTypeTexts == {"Event", "person", "Owns", ""}
RelationTypeTexts == {"ChildOf", "owns", "Person", ""}

\* f32 values: NaN, or a number counted in tenths.
NaN == [nan |-> TRUE, v |-> 0]
F32(v) == [nan |-> FALSE, v |-> v]

\* The comparisons of f32: every comparison with NaN is false.
F32Lt(a, b) == ~a.nan /\ ~b.nan /\ a.v < b.v

\* f32::clamp(self, min, max)
F32Clamp(x, min, max) ==
    IF F32Lt(x, min) THEN min
    ELSE IF F32Lt(max, x) THEN max
    ELSE x

\* An Option<String> field of a record: absent for None, present for Some.
SetOption(rec, field, opt) ==
    IF opt = {}
    THEN [f \in DOMAIN rec \ {field} |-> rec[f]]
    ELSE [f \in DOMAIN rec \cup {field} |->
             IF f = field THEN CHOOSE x \in opt : TRUE ELSE rec[f]]
GetOption(rec, field) == IF field \in DOMAIN rec THEN {rec[field]} ELSE {}

\* Node::new, with the id Uuid::new_v4() gave and the time Utc::now() gave.
Node_new(id, node_type, label, now) ==
    [id |-> id, node_type |-> node_type, label |-> label, created_at |-> now,
     updated_at |-> now, confidence |-> F32(10), tags |-> <<>>]

Node_with_description(node, description) ==
    SetOption(node, "description", {description})

Node_with_tags(node, tags) == [node EXCEPT !.tags = tags]

\* Relationship::new
DefaultWeight == 10
DefaultConfidence == 7

Relationship_new(id, source_id, target_id, relation_type, now) ==
    [id |-> id, source_id |-> source_id, target_id |-> target_id,
     relation_type |-> relation_type, weight |-> F32(DefaultWeight),
     confidence |-> F32(DefaultConfidence), created_at |-> now, updated_at |-> now]

Relationship_with_confidence(relationship, confidence) ==
    [relationship EXCEPT !.confidence = F32Clamp(confidence, F32(0), F32(10))]

Relationship_with_source(relationship, source) ==
    SetOption(relationship, "source", {source})

\* request.weight as f32 and request.confidence as f32: an f64 counted in
\* twentieths becomes the nearest tenth, a tie going to the even one.
F64AsF32(x) ==
    IF x % 2 = 0 THEN F32(x \div 2)
    ELSE IF ((x + 1) \div 2) % 2 = 0 THEN F32((x + 1) \div 2)
    ELSE F32((x - 1) \div 2)

(***************************************************************************)
(* The command handlers (lib.rs). A handler runs on a caller's thread: it  *)
(* parses its request, calls the store, once or twice, and returns a       *)
(* Result. cmd[t] keeps the request, the handler's locals, the store as    *)
(* the handler found it, the store calls it has made and, at the end, the  *)
(* result.                                                                 *)
(***************************************************************************)
\* The number of handlers a caller runs.
MaxCmds == 3

\* Thread t can start a handler: it is in no store call and in no handler, and
\* it has handlers left to run.
CmdIdle(t) ==
    /\ pc[t] = "idle"
    /\ cmd[t].stage \in {"none", "done"}
    /\ cmd[t].run < MaxCmds

\* The handler of thread t starts.
CmdBegin(t, name, request) ==
    [name |-> name, stage |-> "begin", request |-> request, local |-> NoArg,
     result |-> RetNone, before |-> <<nodes, relationships>>, calls |-> <<>>,
     run |-> cmd[t].run + 1]

\* The handler returns result r without calling the store (again).
CmdReturn(t, c, r) ==
    /\ cmd' = [cmd EXCEPT ![t] = [c EXCEPT !.stage = "done", !.result = r]]
    /\ UNCHANGED <<store, mutexes, pc, call, ret, node_existed, script, observe,
                   pre, log, ghosts>>

\* The handler calls store operation op with arg and waits for it at stage.
CmdCall(t, c, stage, local, op, arg) ==
    /\ Start(t, Call(op, arg))
    /\ cmd' = [cmd EXCEPT ![t] = [c EXCEPT !.stage = stage, !.local = local,
                                            !.calls = Append(c.calls, op)]]
    /\ UNCHANGED script

\* The store call the handler waited for at stage has returned.
CmdBack(t, name, stage) ==
    /\ pc[t] = "idle"
    /\ cmd[t].name = name
    /\ cmd[t].stage = stage

\* A handler that parses one identifier and makes one store call with it.
CmdParseThenCall(t, name, request, text, op) ==
    LET c == CmdBegin(t, name, request)
        uuid == ParseUuid(text)
    IN
    /\ CmdIdle(t)
    /\ UNCHANGED clock
    /\ IF uuid.kind = "err"
       THEN CmdReturn(t, c, uuid)
       ELSE CmdCall(t, c, op, [uuid |-> uuid.v], op, IdArg(uuid.v))

\* The value a store call returned, as the handler passes it on.
StoreValue(r) == IF "v" \in DOMAIN r THEN r.v ELSE "unit"

\* state.op(..).map_err(|e| e.to_string()): the store's value, as Ok.
CmdFinish(t, name, stage) ==
    /\ CmdBack(t, name, stage)
    /\ CmdReturn(t, cmd[t], Ok(StoreValue(ret[t])))
    /\ UNCHANGED clock

\* chrono::Utc::now(): a time not before the last one read.
MaxClock == 2
Times == 0..MaxClock
Now(now) == now \in clock..MaxClock /\ clock' = now

\* Uuid::new_v4(): an id that no stored record carries or refers to.
FreshNodeIds ==
    NodeIds \ (DOMAIN nodes
               \cup UNION {Endpoints(relationships[i]) : i \in 1..Len(relationships)})
FreshRelIds == RelIds \ {relationships[i].id : i \in 1..Len(relationships)}

\* The requests the callers send.
OneDescription == <<"b">>
OneTag == <<"A">>
GetNodeRequests == [id : IdTexts]
CreateNodeRequests ==
    [node_type : NodeTypeTexts, label : {OneLabel}, description : {{OneDescription}},
     tags : {<<>>, <<OneTag>>}]
UpdateNodeRequests ==
    [id : IdTexts, label : {OtherLabel}, description : {{}}, tags : {<<>>},
     confidence : {9}]
CreateRelationshipRequests ==
    [source_id : IdTexts, target_id : {UuidToString(1), <<"0", "x">>},
     relation_type : RelationTypeTexts, description : {{}}, confidence : {{F32(14)}},
     source : {{}}]
OneSource == <<"s">>
UpdateRelationshipRequests ==
    [id : IdTexts, relation_type : RelationTypeTexts, description : {{}}, weight : {9},
     confidence : {{F32(4)}}, source : {{OneSource}}]

(***************************************************************************)
(* fn create_node                                                          *)
(***************************************************************************)
cmd_create_node_begin(t, request) ==
    LET c == CmdBegin(t, "create_node", request)
        node_type == ParseNodeType(request.node_type)
    IN
    /\ CmdIdle(t)
    /\ IF node_type.kind = "err"
       THEN CmdReturn(t, c, node_type) /\ UNCHANGED clock
       ELSE \E id \in FreshNodeIds, now \in Times :
                LET created == Node_new(id, node_type.v, request.label, now)
                    described == IF request.description # {}
                                 THEN Node_with_description(
                                          created, CHOOSE d \in request.description : TRUE)
                                 ELSE created
                    node == IF request.tags # <<>>
                            THEN Node_with_tags(described, request.tags)
                            ELSE described
                IN
                /\ Now(now)
                /\ CmdCall(t, c, "write", [node |-> node], "create_node", node)

\* Ok(id) => Ok(id.to_string())
cmd_create_node_end(t) ==
    /\ CmdBack(t, "create_node", "write")
    /\ CmdReturn(t, cmd[t], Ok(UuidToString(ret[t].v)))
    /\ UNCHANGED clock

cmd_create_node(t) ==
    \/ \E request \in CreateNodeRequests : cmd_create_node_begin(t, request)
    \/ cmd_create_node_end(t)

(***************************************************************************)
(* fn get_node, fn delete_node, fn get_node_relationships,                 *)
(* fn delete_relationship: parse the id, make one store call.              *)
(***************************************************************************)
cmd_get_node(t) ==
    \/ \E request \in GetNodeRequests :
           CmdParseThenCall(t, "get_node", request, request.id, "get_node")
    \/ CmdFinish(t, "get_node", "get_node")

cmd_delete_node(t) ==
    \/ \E request \in GetNodeRequests :
           CmdParseThenCall(t, "delete_node", request, request.id, "delete_node")
    \/ CmdFinish(t, "delete_node", "delete_node")

cmd_get_node_relationships(t) ==
    \/ \E request \in GetNodeRequests :
           CmdParseThenCall(t, "get_node_relationships", request, request.id,
                            "get_node_relationships")
    \/ CmdFinish(t, "get_node_relationships", "get_node_relationships")

cmd_delete_relationship(t) ==
    \/ \E request \in GetNodeRequests :
           CmdParseThenCall(t, "delete_relationship", request, request.id,
                            "delete_relationship")
    \/ CmdFinish(t, "delete_relationship", "delete_relationship")

(***************************************************************************)
(* fn update_node                                                          *)
(***************************************************************************)
cmd_update_node_begin(t, request) ==
    CmdParseThenCall(t, "update_node", request, request.id, "get_node")

\* The fields the handler assigns to the node it has read.
\* Mutant of UpdatedNode: updated_at is left as it was read.
UpdatedNodeStale(node, request, now) ==
    [SetOption(node, "description", request.description) EXCEPT
        !.label = request.label,
        !.tags = request.tags,
        !.confidence = F64AsF32(request.confidence)]

UpdatedNode(node, request, now) ==
    [SetOption(node, "description", request.description) EXCEPT
        !.label = request.label,
        !.tags = request.tags,
        !.confidence = F64AsF32(request.confidence),
        !.updated_at = now]

\* Mutant of cmd_update_node_write: a missing node is written all the same.
cmd_update_node_write_upsert(t) ==
    LET c == cmd[t]
        found == ret[t].v
        node == IF found = {}
                THEN Node_new(c.local.uuid, "Person", c.request.label, clock)
                ELSE CHOOSE n \in found : TRUE
    IN
    /\ CmdBack(t, "update_node", "get_node")
    /\ \E now \in Times :
           /\ Now(now)
           /\ CmdCall(t, c, "write", [node |-> UpdatedNode(node, c.request, now)],
                      "update_node", UpdatedNode(node, c.request, now))

\* .ok_or_else(|| "Node not found")?, the assignments, state.update_node(node)
cmd_update_node_write(t) ==
    LET c == cmd[t]
        found == ret[t].v
    IN
    /\ CmdBack(t, "update_node", "get_node")
    /\ IF found = {}
       THEN CmdReturn(t, c, Err("Node not found")) /\ UNCHANGED clock
       ELSE \E now \in Times :
                LET node == UpdatedNode(CHOOSE n \in found : TRUE, c.request, now) IN
                /\ Now(now)
                /\ CmdCall(t, c, "write", [node |-> node], "update_node", node)

cmd_update_node_end(t) == CmdFinish(t, "update_node", "write")

cmd_update_node(t) ==
    \/ \E request \in UpdateNodeRequests : cmd_update_node_begin(t, request)
    \/ cmd_update_node_write(t)
    \/ cmd_update_node_end(t)

(***************************************************************************)
(* fn create_relationship                                                  *)
(***************************************************************************)
cmd_create_relationship_begin(t, request) ==
    LET c == CmdBegin(t, "create_relationship", request)
        source_id == ParseUuid(request.source_id)
        target_id == ParseUuid(request.target_id)
        relation_type == ParseRelationType(request.relation_type)
    IN
    /\ CmdIdle(t)
    /\ IF source_id.kind = "err" THEN CmdReturn(t, c, source_id) /\ UNCHANGED clock
       ELSE IF target_id.kind = "err" THEN CmdReturn(t, c, target_id) /\ UNCHANGED clock
       ELSE IF relation_type.kind = "err"
            THEN CmdReturn(t, c, relation_type) /\ UNCHANGED clock
       ELSE \E id \in FreshRelIds, now \in Times :
                LET created == Relationship_new(id, source_id.v, target_id.v,
                                                relation_type.v, now)
                    rated == IF request.confidence # {}
                             THEN Relationship_with_confidence(
                                      created, CHOOSE x \in request.confidence : TRUE)
                             ELSE created
                    sourced == IF request.source # {}
                               THEN Relationship_with_source(
                                        rated, CHOOSE s \in request.source : TRUE)
                               ELSE rated
                    relationship == IF request.description # {}
                                    THEN SetOption(sourced, "description",
                                                   request.description)
                                    ELSE sourced
                IN
                /\ Now(now)
                /\ CmdCall(t, c, "write", [relationship |-> relationship],
                           "create_relationship", relationship)

cmd_create_relationship_end(t) ==
    /\ CmdBack(t, "create_relationship", "write")
    /\ CmdReturn(t, cmd[t], Ok(UuidToString(ret[t].v)))
    /\ UNCHANGED clock

cmd_create_relationship(t) ==
    \/ \E request \in CreateRelationshipRequests : cmd_create_relationship_begin(t, request)
    \/ cmd_create_relationship_end(t)

(***************************************************************************)
(* fn update_relationship                                                  *)
(***************************************************************************)
\* relationships.into_iter().find(|r| r.id == uuid): the first match, if any.
FindById(v, uuid) ==
    IF VecPosition(v, uuid) = 0 THEN {} ELSE {v[VecPosition(v, uuid)]}

cmd_update_relationship_begin(t, request) ==
    LET c == CmdBegin(t, "update_relationship", request)
        uuid == ParseUuid(request.id)
    IN
    /\ CmdIdle(t)
    /\ UNCHANGED clock
    /\ IF uuid.kind = "err"
       THEN CmdReturn(t, c, uuid)
       ELSE CmdCall(t, c, "get_relationships", [uuid |-> uuid.v],
                    "get_relationships", NoArg)

\* Mutant of UpdatedRelationship: the request's confidence and source are
\* assigned as well.
UpdatedRelationshipAllFields(relationship, request, relation_type, now) ==
    LET sourced == SetOption(SetOption(relationship, "description", request.description),
                             "source", request.source)
    IN [sourced EXCEPT
           !.relation_type = relation_type,
           !.weight = F64AsF32(request.weight),
           !.confidence = IF request.confidence = {} THEN @
                          ELSE CHOOSE x \in request.confidence : TRUE,
           !.updated_at = now]

\* The fields the handler assigns to the relationship it has found.
UpdatedRelationship(relationship, request, relation_type, now) ==
    [SetOption(relationship, "description", request.description) EXCEPT
        !.relation_type = relation_type,
        !.weight = F64AsF32(request.weight),
        !.updated_at = now]

cmd_update_relationship_write(t) ==
    LET c == cmd[t]
        found == FindById(ret[t].v, c.local.uuid)
        relation_type == ParseRelationType(c.request.relation_type)
    IN
    /\ CmdBack(t, "update_relationship", "get_relationships")
    /\ IF found = {}
       THEN CmdReturn(t, c, Err("Relationship not found")) /\ UNCHANGED clock
       ELSE IF relation_type.kind = "err"
            THEN CmdReturn(t, c, relation_type) /\ UNCHANGED clock
       ELSE \E now \in Times :
                LET relationship == UpdatedRelationship(CHOOSE r \in found : TRUE,
                                                        c.request, relation_type.v, now)
                IN
                /\ Now(now)
                /\ CmdCall(t, c, "write", [relationship |-> relationship],
                           "update_relationship", relationship)

cmd_update_relationship_end(t) == CmdFinish(t, "update_relationship", "write")

cmd_update_relationship(t) ==
    \/ \E request \in UpdateRelationshipRequests : cmd_update_relationship_begin(t, request)
    \/ cmd_update_relationship_write(t)
    \/ cmd_update_relationship_end(t)

(***************************************************************************)
(* The command harness: one caller runs the handlers, one after the other, *)
(* on a store that starts empty.                                           *)
(***************************************************************************)
CmdThread == 1

CmdInit ==
    /\ InitStore
    /\ InitThreads
    /\ script = NoScripts
    /\ observe = {"ret"}

CmdNext ==
    \/ cmd_create_node(CmdThread)
    \/ cmd_get_node(CmdThread)
    \/ cmd_update_node(CmdThread)
    \/ cmd_delete_node(CmdThread)
    \/ cmd_create_relationship(CmdThread)
    \/ cmd_get_node_relationships(CmdThread)
    \/ cmd_update_relationship(CmdThread)
    \/ cmd_delete_relationship(CmdThread)
    \/ create_node(CmdThread)
    \/ get_node(CmdThread)
    \/ update_node(CmdThread)
    \/ delete_node(CmdThread)
    \/ create_relationship(CmdThread)
    \/ get_relationships(CmdThread)
    \/ get_node_relationships(CmdThread)
    \/ update_relationship(CmdThread)
    \/ delete_relationship(CmdThread)

CmdSpec == CmdInit /\ [][CmdNext]_vars

(***************************************************************************)
(* Properties of the command handlers, checked under CmdSpec: cmd[t] of a  *)
(* handler that has returned holds its request, the store it was started   *)
(* on, the store calls it made and its result.                             *)
(***************************************************************************)
\* The handler `name` of the caller has returned.
CmdDone(name) == cmd[CmdThread].name = name /\ cmd[CmdThread].stage = "done"

\* The identifier texts of the request of a handler.
RequestIdTexts(c) ==
    IF c.name = "create_relationship" THEN {c.request.source_id, c.request.target_id}
    ELSE IF c.name = "create_node" THEN {}
    ELSE {c.request.id}

\* The outcomes by which the handlers report that nothing was found: Ok(None)
\* of get_node, Ok(false) of the deleting handlers, and the two messages.
NotFoundOutcome(c) ==
    IF c.result.kind = "err"
    THEN c.result.v \in {"Node not found", "Relationship not found"}
    ELSE CASE c.name = "get_node" -> c.result.v = {}
           [] c.name \in {"delete_node", "delete_relationship"} -> c.result.v = FALSE
           [] OTHER -> FALSE

\* C22: a handler whose request carries an identifier text that is not a
\* well-formed UUID returns an error, which is none of the not-found
\* outcomes; it has called no store operation and both collections are as
\* they were when it started.
C22_ParseErrors ==
    LET c == cmd[CmdThread] IN
    (c.stage = "done" /\ \E text \in RequestIdTexts(c) : ~WellFormed(text)) =>
        /\ c.result.kind = "err"
        /\ ~NotFoundOutcome(c)
        /\ c.calls = <<>>
        /\ <<nodes, relationships>> = c.before

\* C22 happens: on a store that holds a node and a relationship, a handler
\* has rejected a malformed identifier.
C22_Witness ==
    LET c == cmd[CmdThread] IN
    /\ c.stage = "done"
    /\ c.name \in {"delete_node", "delete_relationship", "update_node"}
    /\ ~WellFormed(c.request.id)
    /\ c.result.kind = "err"
    /\ nodes # HashMapNew
    /\ relationships # <<>>

\* The request of handler c carries a type tag that names no type.
InvalidTypeTag(c) ==
    \/ c.name = "create_node" /\ c.request.node_type \notin NodeTypes
    \/ /\ c.name \in {"create_relationship", "update_relationship"}
       /\ c.request.relation_type \notin RelationTypes

\* C23: a create_node, create_relationship or update_relationship handler
\* whose request carries an invalid type tag returns an error, has made no
\* writing store call, and both collections are as they were when it started.
C23_InvalidTypeRejected ==
    LET c == cmd[CmdThread] IN
    (c.stage = "done" /\ InvalidTypeTag(c)) =>
        /\ c.result.kind = "err"
        /\ \A i \in 1..Len(c.calls) : c.calls[i] \notin WriteOps
        /\ <<nodes, relationships>> = c.before

\* C23 happens: update_relationship has found the relationship it was asked
\* to update and has rejected the type tag.
C23_Witness ==
    LET c == cmd[CmdThread] IN
    /\ CmdDone("update_relationship")
    /\ InvalidTypeTag(c)
    /\ c.result = Err("Invalid relationship type")
    /\ \E i \in 1..Len(relationships) :
           UuidToString(relationships[i].id) = c.request.id

\* update_node is asked for an id that the node map does not hold.
UpdateOfMissingNode(c) ==
    /\ c.name = "update_node"
    /\ WellFormed(c.request.id)
    /\ ParseUuid(c.request.id).v \notin DOMAIN c.before[1]

\* C24: the update_node handler, asked for a well-formed id that is not in
\* the node map, returns Err("Node not found"), has only read the node and
\* has not called the store's update_node, and both collections are as they
\* were.
C24_UpdateMissingNodeIsError ==
    LET c == cmd[CmdThread] IN
    (c.stage = "done" /\ UpdateOfMissingNode(c)) =>
        /\ c.result = Err("Node not found")
        /\ c.calls = <<"get_node">>
        /\ <<nodes, relationships>> = c.before

\* C24 happens: the handler has reported a missing node on a store that
\* holds another node.
C24_Witness ==
    LET c == cmd[CmdThread] IN
    /\ c.stage = "done"
    /\ UpdateOfMissingNode(c)
    /\ c.result.kind = "err"
    /\ nodes # HashMapNew

\* The update handler `name` has returned success.
Updated(name) == CmdDone(name) /\ cmd[CmdThread].result.kind = "ok"

\* Entity `after` is entity `old` after an update at the time the clock shows.
Refreshed(old, after) ==
    /\ after.id = old.id
    /\ after.created_at = old.created_at
    /\ after.updated_at = clock

\* C26: a node or relationship changed through the update_node or
\* update_relationship handler keeps its id and created_at and has the time
\* of the update as updated_at; every stored entity, all of them built by
\* the constructors and changed through these handlers only, has
\* updated_at >= created_at.
C26_Timestamps ==
    LET c == cmd[CmdThread] IN
    /\ Updated("update_node") =>
           /\ c.local.node.id \in DOMAIN nodes
           /\ Refreshed(c.before[1][c.local.node.id], nodes[c.local.node.id])
    /\ Updated("update_relationship") =>
           LET id == c.local.relationship.id IN
           /\ VecPosition(relationships, id) # 0
           /\ VecPosition(relationships, id) = VecPosition(c.before[2], id)
           /\ Refreshed(c.before[2][VecPosition(c.before[2], id)],
                        relationships[VecPosition(relationships, id)])
    /\ \A k \in DOMAIN nodes : nodes[k].updated_at >= nodes[k].created_at
    /\ \A i \in 1..Len(relationships) :
           relationships[i].updated_at >= relationships[i].created_at

\* C26 happens: next to a stored node, a relationship is stored that the
\* handler, which has just returned, updated later than it was created.
C26_Witness ==
    /\ Updated("update_relationship")
    /\ \E i \in 1..Len(relationships) :
           /\ relationships[i].id = cmd[CmdThread].local.relationship.id
           /\ relationships[i].updated_at > relationships[i].created_at
    /\ nodes # HashMapNew

(***************************************************************************)
(* fn load_project                                                         *)
(***************************************************************************)
\* What the handler finds at file_path: a file that cannot be read, one that
\* does not parse, or one that parses to a ProjectData.
EmptyProject == [nodes |-> <<>>, relationships |-> <<>>]
Files ==
    [status : {"ok"}, data : ProjectData]
    \cup [status : {"unreadable", "malformed"}, data : {EmptyProject}]

\* read_to_string(..)?, from_str(..)?, then the store calls, each awaited in
\* turn.
cmd_load_project_begin(t, file) ==
    LET c == CmdBegin(t, "load_project", file) IN
    /\ CmdIdle(t)
    /\ UNCHANGED clock
    /\ IF file.status # "ok"
       THEN CmdReturn(t, c, Err(file.status))
       ELSE /\ cmd' = [cmd EXCEPT ![t] = [c EXCEPT !.stage = "loading"]]
            /\ script' = [script EXCEPT ![t] = load_project(file.data)]
            /\ UNCHANGED <<store, mutexes, pc, call, ret, node_existed, observe,
                           pre, log, ghosts>>

\* Ok(project_data.metadata)
cmd_load_project_end(t) ==
    /\ CmdBack(t, "load_project", "loading")
    /\ script[t] = <<>>
    /\ CmdReturn(t, cmd[t], Ok("metadata"))
    /\ UNCHANGED clock

(***************************************************************************)
(* The load harness: load_project, run once by one caller on a store that  *)
(* earlier calls have filled. The file lists nodes and relationships in    *)
(* array order, with whatever ids its records carry.                       *)
(***************************************************************************)
LoadInit ==
    /\ InitThreads
    /\ nodes_mutex = NoThread
    /\ relationships_mutex = NoThread
    /\ \/ nodes = HashMapNew /\ relationships = <<>>
       \/ nodes = [id \in {1} |-> FirstNode] /\ relationships = <<FirstRelationship>>
    /\ observe = {"ret", "log"}
    /\ script = NoScripts

LoadNext ==
    \/ /\ cmd[Loader].stage = "none"
       /\ \E file \in Files : cmd_load_project_begin(Loader, file)
    \/ InvokeScript(Loader)
    \/ clear_all(Loader)
    \/ create_node(Loader)
    \/ create_relationship(Loader)
    \/ cmd_load_project_end(Loader)

LoadSpec == LoadInit /\ [][LoadNext]_vars

\* C15 as stated: in every state no two elements of the relationship list
\* have the same id.
C15_RelationshipIdUnique ==
    \A i, j \in 1..Len(relationships) :
        i # j => relationships[i].id # relationships[j].id

\* What the code does instead: load_project has run to its end and the list
\* holds two different records of the same id.
C15_DuplicateIdStored ==
    /\ AllDone({Loader})
    /\ Len(relationships) = 2
    /\ relationships[1].id = relationships[2].id
    /\ relationships[1] # relationships[2]

\* The store calls invoked so far, in order.
Invoked ==
    LET invocations == SelectSeq(log, LAMBDA e : e.what = "invoke") IN
    [i \in 1..Len(invocations) |-> invocations[i].call]

\* The load_project handler has returned a result of kind `kind`.
Loaded(kind) ==
    /\ cmd[Loader].name = "load_project"
    /\ cmd[Loader].stage = "done"
    /\ cmd[Loader].result.kind = kind

\* C25: when load_project has returned Ok, its store calls were clear_all,
\* then create_node for every node of the file in array order, then
\* create_relationship for every relationship in array order; the
\* relationship list is the file's array, the node map holds exactly the ids
\* of the file, each with the last node of the array that carries it. When
\* the file did not read or parse, no store call was made and the store is
\* as it was.
C25_LoadOrder ==
    LET c == cmd[Loader]
        ns == c.request.data.nodes
        rs == c.request.data.relationships
    IN
    /\ Loaded("ok") =>
           /\ Len(Invoked) = 1 + Len(ns) + Len(rs)
           /\ Invoked[1] = Call("clear_all", NoArg)
           /\ \A i \in 1..Len(ns) : Invoked[1 + i] = Call("create_node", ns[i])
           /\ \A i \in 1..Len(rs) :
                  Invoked[1 + Len(ns) + i] = Call("create_relationship", rs[i])
           /\ relationships = rs
           /\ DOMAIN nodes = {ns[i].id : i \in 1..Len(ns)}
           /\ \A i \in 1..Len(ns) :
                  (\A j \in (i + 1)..Len(ns) : ns[j].id # ns[i].id) => nodes[ns[i].id] = ns[i]
    /\ Loaded("err") =>
           /\ Invoked = <<>>
           /\ <<nodes, relationships>> = c.before

\* C25 happens: a store that held node 1 and a relationship has been loaded
\* from a file that lists two different nodes under one other id and two
\* relationships.
C25_Witness ==
    LET c == cmd[Loader] IN
    /\ Loaded("ok")
    /\ c.before[1] # HashMapNew
    /\ Len(c.request.data.nodes) = 2
    /\ c.request.data.nodes[1].id = c.request.data.nodes[2].id
    /\ c.request.data.nodes[1] # c.request.data.nodes[2]
    /\ DOMAIN nodes # DOMAIN c.before[1]
    /\ Len(relationships) = 2

(***************************************************************************)
(* The builder harness: a caller builds a relationship with                *)
(* Relationship::new and passes it through with_confidence, any number of  *)
(* times, with any f32. cmd[t].local holds the relationship, the one it    *)
(* was made from and the argument of the last call.                        *)
(***************************************************************************)
Builder == 1

\* The f32 values passed as confidence, in tenths, and NaN.
Confidences == {F32(-5), F32(0), F32(4), F32(10), F32(17), NaN}

\* let relationship = Relationship::new(source_id, target_id, relation_type);
build_new(t) ==
    /\ cmd[t].stage = "none"
    /\ \E id \in RelIds, source_id \in NodeIds, target_id \in NodeIds,
          relation_type \in {"Owns", "ChildOf"}, now \in Times :
           LET relationship == Relationship_new(id, source_id, target_id,
                                                relation_type, now)
           IN
           /\ Now(now)
           /\ cmd' = [cmd EXCEPT ![t] =
                         [NoCmd EXCEPT !.name = "Relationship::new", !.stage = "built",
                                       !.local = [relationship |-> relationship,
                                                  previous |-> relationship,
                                                  confidence |-> relationship.confidence]]]
    /\ UNCHANGED <<store, mutexes, pc, call, ret, node_existed, script, observe,
                   pre, log, ghosts>>

\* let relationship = relationship.with_confidence(confidence);
build_with_confidence(t) ==
    /\ cmd[t].stage = "built"
    /\ \E confidence \in Confidences :
           cmd' = [cmd EXCEPT ![t] =
                      [@ EXCEPT !.name = "with_confidence",
                                !.local = [relationship |->
                                               Relationship_with_confidence(
                                                   @.relationship, confidence),
                                           previous |-> @.relationship,
                                           confidence |-> confidence]]]
    /\ UNCHANGED <<store, mutexes, pc, call, ret, node_existed, script, observe,
                   pre, log, ghosts, clock>>

BuildInit ==
    /\ InitStore
    /\ InitThreads
    /\ script = NoScripts
    /\ observe = {}

BuildNext == build_new(Builder) \/ build_with_confidence(Builder)

BuildSpec == BuildInit /\ [][BuildNext]_vars

\* C27 as stated: a relationship built by Relationship::new and passed
\* through any chain of with_confidence calls has a confidence in [0.0, 1.0].
C27_ConfidenceInRange ==
    LET confidence == cmd[Builder].local.relationship.confidence IN
    cmd[Builder].stage = "built" =>
        /\ ~confidence.nan
        /\ 0 <= confidence.v
        /\ confidence.v <= 10

\* What the code does instead: with_confidence(NaN) has stored NaN, and has
\* changed no other field.
C27_NaNStored ==
    LET local == cmd[Builder].local IN
    /\ cmd[Builder].name = "with_confidence"
    /\ local.confidence = NaN
    /\ local.relationship.confidence = NaN
    /\ local.relationship = [local.previous EXCEPT !.confidence = NaN]

(***************************************************************************)
(* The update-race harness: one caller runs an update handler, which reads *)
(* and writes in two store calls, while another makes one deleting store   *)
(* call. The store holds nodes and relationships as the constructors build *)
(* them; the list may hold two records of one id, as load_project leaves   *)
(* them.                                                                   *)
(***************************************************************************)
Updater == 1
Remover == 2

\* The entities of the store the race starts on.
RaceNode(id) == Node_new(id, "Person", OneLabel, 0)
RaceRelationships ==
    {Relationship_new(id, source_id, 1, "Owns", 0) : id \in RelIds, source_id \in NodeIds}
RaceRelLists == UNION {[1..k -> RaceRelationships] : k \in 0..MaxRels}

\* The requests of the updater: well-formed, for ids that can be stored.
RaceUpdateNodeRequests ==
    {request \in UpdateNodeRequests : request.id \in {UuidToString(i) : i \in NodeIds}}
RaceUpdateRelationshipRequests ==
    {request \in UpdateRelationshipRequests :
        /\ request.id \in {UuidToString(i) : i \in RelIds}
        /\ request.relation_type \in RelationTypes}

\* The calls of the remover.
RemoverCalls ==
    {Call("delete_node", IdArg(i)) : i \in NodeIds}
    \cup {Call("delete_relationship", IdArg(i)) : i \in RelIds}

UpdateRaceInit ==
    /\ InitThreads
    /\ nodes_mutex = NoThread
    /\ relationships_mutex = NoThread
    /\ observe = {"ret", "log"}
    /\ \E ids \in SUBSET NodeIds : nodes = [id \in ids |-> RaceNode(id)]
    /\ relationships \in RaceRelLists
    /\ \E c \in RemoverCalls :
           script = [t \in AllThreads |-> IF t = Remover THEN <<c>> ELSE <<>>]

UpdateRaceNext ==
    \/ /\ cmd[Updater].stage = "none"
       /\ \/ \E request \in RaceUpdateNodeRequests :
                 cmd_update_node_begin(Updater, request)
          \/ \E request \in RaceUpdateRelationshipRequests :
                 cmd_update_relationship_begin(Updater, request)
    \/ cmd_update_node_write(Updater)
    \/ cmd_update_node_end(Updater)
    \/ cmd_update_relationship_write(Updater)
    \/ cmd_update_relationship_end(Updater)
    \/ get_node(Updater)
    \/ update_node(Updater)
    \/ get_relationships(Updater)
    \/ update_relationship(Updater)
    \/ InvokeScript(Remover)
    \/ delete_node(Remover)
    \/ delete_relationship(Remover)

UpdateRaceSpec == UpdateRaceInit /\ [][UpdateRaceNext]_vars

\* The log entry in which thread t does `what` in a call of op, 0 if none.
LogEntry(t, what, op) ==
    IF \E i \in 1..Len(log) :
           log[i].thread = t /\ log[i].what = what /\ log[i].call.op = op
    THEN CHOOSE i \in 1..Len(log) :
             log[i].thread = t /\ log[i].what = what /\ log[i].call.op = op
    ELSE 0

\* The remover's call `c` ran, from its invocation to its return, after the
\* updater's read had returned and before the updater invoked its write.
DeletedBetween(c, read, write) ==
    LET invoked == LogEntry(Remover, "invoke", c.op)
        returned == LogEntry(Remover, "return", c.op)
    IN
    /\ invoked # 0
    /\ log[invoked].call = c
    /\ returned # 0
    /\ LogEntry(Updater, "return", read) # 0
    /\ LogEntry(Updater, "return", read) < invoked
    /\ LogEntry(Updater, "invoke", write) # 0
    /\ returned < LogEntry(Updater, "invoke", write)

\* The update handler `name` of the updater has returned.
UpdaterDone(name) == cmd[Updater].name = name /\ cmd[Updater].stage = "done"

\* C28: when delete_node(id) has run between the read and the write of an
\* update_node handler that found the node, then, once the handler has
\* returned, delete_node has returned true, the handler has returned
\* success, the node is stored again, as the handler wrote it, and the
\* relationships that referenced it are gone.
C28_ResurrectionRace ==
    LET c == cmd[Updater] IN
    (/\ UpdaterDone("update_node")
     /\ c.calls = <<"get_node", "update_node">>
     /\ DeletedBetween(Call("delete_node", IdArg(c.local.node.id)),
                       "get_node", "update_node")) =>
        /\ ret[Remover] = RetBool(TRUE)
        /\ c.result = Ok("unit")
        /\ c.local.node.id \in DOMAIN nodes
        /\ nodes[c.local.node.id] = c.local.node
        /\ relationships = VecRetain(c.before[2], c.local.node.id)
        /\ \A i \in 1..Len(relationships) :
               c.local.node.id \notin Endpoints(relationships[i])

\* C28 happens: the interleaving is reached on a store that held a
\* relationship referencing the node.
C28_Witness ==
    LET c == cmd[Updater] IN
    /\ UpdaterDone("update_node")
    /\ c.calls = <<"get_node", "update_node">>
    /\ DeletedBetween(Call("delete_node", IdArg(c.local.node.id)),
                      "get_node", "update_node")
    /\ ret[Remover] = RetBool(TRUE)
    /\ c.result.kind = "ok"
    /\ c.local.node.id \in DOMAIN nodes
    /\ Len(relationships) < Len(c.before[2])

\* The remover's call c removes the relationship `found`: by its id, or by
\* the cascade of a stored node it refers to.
Removes(c, found) ==
    \/ c.op = "delete_relationship" /\ c.arg.id = found.id
    \/ /\ c.op = "delete_node"
       /\ c.arg.id \in Endpoints(found)
       /\ c.arg.id \in DOMAIN cmd[Updater].before[1]

\* The list v after the remover's call c.
AfterRemoval(c, v) ==
    IF c.op = "delete_relationship" THEN DeleteRelationshipVec(v, c.arg.id)
    ELSE VecRetain(v, c.arg.id)

\* The relationship the update_relationship handler found at its read.
FoundAtRead ==
    CHOOSE r \in FindById(cmd[Updater].before[2], cmd[Updater].local.relationship.id) :
        TRUE

\* A deleting call removed the relationship the update_relationship handler
\* had read, between the handler's read and its write, and the handler has
\* returned.
RemovedBetween(c) ==
    /\ UpdaterDone("update_relationship")
    /\ cmd[Updater].calls = <<"get_relationships", "update_relationship">>
    /\ DeletedBetween(c, "get_relationships", "update_relationship")
    /\ Removes(c, FoundAtRead)

\* C29 as stated: when a delete_relationship or a cascading delete_node has
\* removed the relationship between the read and the write of the
\* update_relationship handler, the write changes nothing: the list is as the
\* removal left it, no longer, the relationship the handler wrote is not in
\* it, and the handler has returned success.
C29_NoReinsertion ==
    \A c \in RemoverCalls :
        RemovedBetween(c) =>
            /\ relationships = AfterRemoval(c, cmd[Updater].before[2])
            /\ Len(relationships) <= Len(cmd[Updater].before[2])
            /\ \A i \in 1..Len(relationships) :
                   relationships[i] # cmd[Updater].local.relationship
            /\ cmd[Updater].result = Ok("unit")

\* What the code does instead: the list held two records of the id, the
\* removal took the first, which the handler had read, and the handler's
\* write has put its copy of the removed record in the place of the second.
C29_StaleCopyStored ==
    \E c \in RemoverCalls :
        /\ RemovedBetween(c)
        /\ Len(cmd[Updater].before[2]) = 2
        /\ relationships = <<cmd[Updater].local.relationship>>
        /\ cmd[Updater].result = Ok("unit")

(***************************************************************************)
(* The visibility harness: one caller deletes a node through the           *)
(* delete_node handler while another reads the nodes and then the          *)
(* relationships.                                                          *)
(***************************************************************************)
VisDeleter == 1
VisReader == 2

\* The reader's two calls: a read of the nodes, then one of the relationships.
NodeReads ==
    {Call("get_node", IdArg(i)) : i \in NodeIds}
    \cup {Call("get_all_nodes", NoArg)}
    \cup {Call("search_nodes", QueryArg(q)) : q \in Queries}
RelationshipReads ==
    {Call("get_relationships", NoArg)}
    \cup {Call("get_node_relationships", IdArg(i)) : i \in NodeIds}

\* The requests of the deleter: well-formed, for ids that can be stored.
VisDeleteRequests ==
    {request \in GetNodeRequests : request.id \in {UuidToString(i) : i \in NodeIds}}

\* The relationship lists the race starts on: the i-th record has id i.
VisRelLists == {v \in RelLists(MaxRels) : \A i \in 1..Len(v) : v[i].id = i}

VisInit ==
    /\ InitThreads
    /\ nodes_mutex = NoThread
    /\ relationships_mutex = NoThread
    /\ observe = {"ret", "log"}
    /\ \E ids \in SUBSET NodeIds : nodes = [id \in ids |-> StressNode(id)]
    /\ relationships \in VisRelLists
    /\ \E first \in NodeReads, second \in RelationshipReads :
           script = [t \in AllThreads |-> IF t = VisReader THEN <<first, second>> ELSE <<>>]

VisNext ==
    \/ /\ cmd[VisDeleter].stage = "none"
       /\ \E request \in VisDeleteRequests :
              CmdParseThenCall(VisDeleter, "delete_node", request, request.id, "delete_node")
    \/ CmdFinish(VisDeleter, "delete_node", "delete_node")
    \/ delete_node(VisDeleter)
    \/ InvokeScript(VisReader)
    \/ get_node(VisReader)
    \/ get_all_nodes(VisReader)
    \/ search_nodes(VisReader)
    \/ get_relationships(VisReader)
    \/ get_node_relationships(VisReader)

VisSpec == VisInit /\ [][VisNext]_vars

\* The id the deleter deletes, once its handler has parsed the request.
DeletedId == cmd[VisDeleter].local.uuid

\* The log entry e is the return of a read of the nodes that shows id, which
\* was stored when the delete began, to be gone.
ObservesRemoval(e, id) ==
    /\ e.thread = VisReader
    /\ e.what = "return"
    /\ id \in DOMAIN cmd[VisDeleter].before[1]
    /\ CASE e.call.op = "get_node" -> e.call.arg.id = id /\ e.ret.v = {}
         [] e.call.op = "get_all_nodes" -> \A node \in e.ret.v : node.id # id
         [] e.call.op = "search_nodes" ->
                /\ NodeMatches(cmd[VisDeleter].before[1][id], ToLowercase(e.call.arg.query))
                /\ \A node \in e.ret.v : node.id # id
         [] OTHER -> FALSE

\* The log entry e is the return of a read of the relationships.
ReturnsRelationships(e) ==
    /\ e.thread = VisReader
    /\ e.what = "return"
    /\ e.call.op \in {"get_relationships", "get_node_relationships"}

\* C30: once a get_node, get_all_nodes or search_nodes call has shown the
\* node of a delete_node call to be gone, a get_relationships or
\* get_node_relationships call started afterwards returns no relationship
\* that references the node's id.
C30_VisibleAfterCascade ==
    cmd[VisDeleter].stage # "none" =>
        \A i, j \in 1..Len(log) :
            (i < j /\ ObservesRemoval(log[i], DeletedId) /\ ReturnsRelationships(log[j])) =>
                \A k \in 1..Len(log[j].ret.v) :
                    DeletedId \notin Endpoints(log[j].ret.v[k])

\* C30 happens: the reader has seen the node gone and has then read
\* relationships, of a list that held one referencing the node and one not,
\* when the delete began.
C30_Witness ==
    /\ cmd[VisDeleter].stage # "none"
    /\ \E i, j \in 1..Len(log) :
           /\ i < j
           /\ ObservesRemoval(log[i], DeletedId)
           /\ ReturnsRelationships(log[j])
           /\ log[j].ret.v # <<>>
    /\ \E k \in 1..Len(cmd[VisDeleter].before[2]) :
           DeletedId \in Endpoints(cmd[VisDeleter].before[2][k])

(***************************************************************************)
(* The delete-race harness: two or more callers delete the same stored     *)
(* node, or the same stored relationship, at once. Nobody creates or       *)
(* updates anything.                                                       *)
(***************************************************************************)
Racers == 1..(NumDeleters + 1)

DeleteRaceInit ==
    /\ InitThreads
    /\ nodes_mutex = NoThread
    /\ relationships_mutex = NoThread
    /\ observe = {"ret", "log"}
    /\ \E ids \in SUBSET NodeIds : nodes = [id \in ids |-> StressNode(id)]
    /\ relationships \in VisRelLists
    /\ \E c \in {Call("delete_node", IdArg(id)) : id \in DOMAIN nodes}
                \cup {Call("delete_relationship", IdArg(relationships[i].id)) :
                          i \in 1..Len(relationships)} :
           \E racing \in {S \in SUBSET Racers : Cardinality(S) >= 2} :
               script = [t \in AllThreads |-> IF t \in racing THEN <<c>> ELSE <<>>]

DeleteRaceNext ==
    \E t \in Racers :
        \/ InvokeScript(t)
        \/ delete_node(t)
        \/ delete_relationship(t)

DeleteRaceSpec == DeleteRaceInit /\ [][DeleteRaceNext]_vars

\* The callers that have made their call, and those it returned true to.
Raced == {t \in Racers : ret[t].kind = "bool"}
Winners == {t \in Raced : ret[t].v}

\* The log entries that record a step `what`.
Steps(what) == {i \in 1..Len(log) : log[i].what = what}

\* C31: once all the callers deleting one stored node, or one relationship
\* stored once, have returned, exactly one of them has got true and the
\* others false; for delete_node the cascade has run exactly once.
C31_OneWinner ==
    (AllDone(Racers) /\ log # <<>>) =>
        /\ Cardinality(Raced) >= 2
        /\ Cardinality(Winners) = 1
        /\ \A t \in Raced \ Winners : ret[t] = RetBool(FALSE)
        /\ log[1].call.op = "delete_node" => Cardinality(Steps("retain")) = 1

\* C31 happens: three callers have deleted a node that relationships
\* referenced, one has won and the list is shorter by the cascade.
C31_Witness ==
    /\ AllDone(Racers)
    /\ Cardinality(Raced) = NumDeleters + 1
    /\ Cardinality(Winners) = 1
    /\ log[1].call.op = "delete_node"
    /\ Cardinality(Steps("retain")) = 1
    /\ \E i \in 1..Len(log) :
           /\ log[i].what = "retain"
           /\ \A j \in 1..Len(relationships) :
                  log[i].call.arg.id \notin Endpoints(relationships[j])
    /\ Len(relationships) = 1

(***************************************************************************)
(* fn save_project, fn export_csv, fn export_graphml, fn export_json: read *)
(* the nodes, read the relationships, write both to the file.              *)
(***************************************************************************)
SnapshotCommands == {"save_project", "export_csv", "export_graphml", "export_json"}

\* let nodes = state.get_all_nodes().map_err(|e| e.to_string())?;
cmd_save_project_begin(t, name) ==
    /\ CmdIdle(t)
    /\ CmdCall(t, CmdBegin(t, name, NoArg), "get_all_nodes", NoArg, "get_all_nodes", NoArg)
    /\ UNCHANGED clock

\* let relationships = state.get_relationships().map_err(|e| e.to_string())?;
cmd_save_project_relationships(t) ==
    /\ pc[t] = "idle"
    /\ cmd[t].name \in SnapshotCommands
    /\ cmd[t].stage = "get_all_nodes"
    /\ CmdCall(t, cmd[t], "get_relationships", [nodes |-> ret[t].v],
               "get_relationships", NoArg)
    /\ UNCHANGED clock

\* Mutant of cmd_save_project_write: relationships whose endpoints are not
\* among the nodes read are left out of the file.
cmd_save_project_write_filtered(t) ==
    LET ids == {node.id : node \in cmd[t].local.nodes}
        kept == SelectSeq(ret[t].v, LAMBDA r : Endpoints(r) \subseteq ids)
    IN
    /\ pc[t] = "idle"
    /\ cmd[t].name \in SnapshotCommands
    /\ cmd[t].stage = "get_relationships"
    /\ \E written \in BOOLEAN :
           CmdReturn(t, [cmd[t] EXCEPT !.local = [nodes |-> @.nodes, relationships |-> kept]],
                     IF written THEN Ok("unit") ELSE Err("write"))
    /\ UNCHANGED clock

\* std::fs::write(&file_path, ..).map_err(|e| e.to_string())?; Ok(())
cmd_save_project_write(t) ==
    /\ pc[t] = "idle"
    /\ cmd[t].name \in SnapshotCommands
    /\ cmd[t].stage = "get_relationships"
    /\ \E written \in BOOLEAN :
           CmdReturn(t, [cmd[t] EXCEPT !.local = [nodes |-> @.nodes,
                                                  relationships |-> ret[t].v]],
                     IF written THEN Ok("unit") ELSE Err("write"))
    /\ UNCHANGED clock

(***************************************************************************)
(* The save harness: one caller saves or exports while another creates a   *)
(* node and then a relationship that refers to it. Every relationship of   *)
(* the store the race starts on refers to stored nodes.                    *)
(***************************************************************************)
Saver == 1
Writer == 2

SaveInit ==
    /\ InitThreads
    /\ nodes_mutex = NoThread
    /\ relationships_mutex = NoThread
    /\ observe = {"ret", "log"}
    /\ \E ids \in SUBSET NodeIds : nodes = [id \in ids |-> StressNode(id)]
    /\ relationships \in {v \in VisRelLists :
                              /\ Len(v) < MaxRels
                              /\ \A i \in 1..Len(v) : Endpoints(v[i]) \subseteq DOMAIN nodes}
    /\ \E C \in NodeIds \ DOMAIN nodes :
           \E r \in {x \in Relationships :
                        /\ x.id = Len(relationships) + 1
                        /\ C \in Endpoints(x)
                        /\ Endpoints(x) \subseteq DOMAIN nodes \cup {C}} :
               script = [t \in AllThreads |->
                            IF t = Writer
                            THEN <<Call("create_node", StressNode(C)),
                                   Call("create_relationship", r)>>
                            ELSE <<>>]

SaveNext ==
    \/ /\ cmd[Saver].stage = "none"
       /\ \E name \in SnapshotCommands : cmd_save_project_begin(Saver, name)
    \/ cmd_save_project_relationships(Saver)
    \/ cmd_save_project_write(Saver)
    \/ get_all_nodes(Saver)
    \/ get_relationships(Saver)
    \/ InvokeScript(Writer)
    \/ create_node(Writer)
    \/ create_relationship(Writer)

SaveSpec == SaveInit /\ [][SaveNext]_vars

\* The pair (nodes, relationships) that was written to the file.
Saved == cmd[Saver].local

\* The saver has written its file.
SaverDone ==
    /\ cmd[Saver].name \in SnapshotCommands
    /\ cmd[Saver].stage = "done"
    /\ cmd[Saver].result.kind = "ok"

\* The writer made both its calls after the saver's read of the nodes had
\* returned and before the saver invoked its read of the relationships.
WrittenBetween ==
    /\ LogEntry(Saver, "return", "get_all_nodes") # 0
    /\ LogEntry(Writer, "invoke", "create_node") # 0
    /\ LogEntry(Saver, "return", "get_all_nodes") < LogEntry(Writer, "invoke", "create_node")
    /\ LogEntry(Writer, "return", "create_relationship") # 0
    /\ LogEntry(Saver, "invoke", "get_relationships") # 0
    /\ LogEntry(Writer, "return", "create_relationship")
           < LogEntry(Saver, "invoke", "get_relationships")

\* The pair is the store (ns, rs).
SavedIs(ns, rs) == Saved.nodes = HashMapValues(ns) /\ Saved.relationships = rs

\* A saved relationship refers to an id that no saved node has.
SavedDangling ==
    \E i \in 1..Len(Saved.relationships) :
        \E id \in Endpoints(Saved.relationships[i]) :
            \A node \in Saved.nodes : node.id # id

\* C32: at every instant every stored relationship refers to stored nodes;
\* yet when the writer has created its node and its relationship between the
\* two reads of a save or export, the saved pair holds a relationship whose
\* endpoint is not among the saved nodes, and it is none of the states the
\* store went through: the one before the writes, the one between them and
\* the one after.
C32_TornSnapshot ==
    /\ \A i \in 1..Len(relationships) : Endpoints(relationships[i]) \subseteq DOMAIN nodes
    /\ (SaverDone /\ WrittenBetween) =>
           /\ SavedDangling
           /\ ~SavedIs(cmd[Saver].before[1], cmd[Saver].before[2])
           /\ ~SavedIs(nodes, cmd[Saver].before[2])
           /\ ~SavedIs(nodes, relationships)

\* C32 happens: a save has returned with the writer's two calls between its
\* reads, and its file holds a relationship without its node.
C32_Witness ==
    /\ SaverDone
    /\ WrittenBetween
    /\ SavedDangling
    /\ cmd[Saver].name = "save_project"
    /\ \A i \in 1..Len(relationships) : Endpoints(relationships[i]) \subseteq DOMAIN nodes

(***************************************************************************)
(* The frame harness: one caller runs update_relationship once, on a store *)
(* whose relationships carry every field a stored relationship can carry,  *)
(* with requests that carry every kind of confidence and source.           *)
(***************************************************************************)
OneMetadata == <<"m">>

\* A relationship as Relationship::new leaves it, and one that carries a
\* clamped confidence, a source and metadata.
FrameRelationships ==
    LET new(id, source_id) == Relationship_new(id, source_id, 1, "Owns", 0)
        full(id, source_id) ==
            SetOption(Relationship_with_source(
                          Relationship_with_confidence(new(id, source_id), F32(3)),
                          OneTag),
                      "metadata", {OneMetadata})
    IN {new(id, source_id) : id \in RelIds, source_id \in NodeIds}
       \cup {full(id, source_id) : id \in RelIds, source_id \in NodeIds}

FrameRelLists == UNION {[1..k -> FrameRelationships] : k \in 0..MaxRels}

FrameUpdateRequests ==
    [id : {UuidToString(i) : i \in RelIds}, relation_type : RelationTypeTexts,
     description : {{}, {OneDescription}}, weight : {9},
     confidence : {{}, {F32(4)}, {NaN}}, source : {{}, {OneSource}}]

FrameInit ==
    /\ InitThreads
    /\ nodes_mutex = NoThread
    /\ relationships_mutex = NoThread
    /\ observe = {"ret"}
    /\ script = NoScripts
    /\ \E ids \in {{}, NodeIds} : nodes = [id \in ids |-> RaceNode(id)]
    /\ relationships \in FrameRelLists

FrameNext ==
    \/ /\ cmd[CmdThread].stage = "none"
       /\ \E request \in FrameUpdateRequests :
              cmd_update_relationship_begin(CmdThread, request)
    \/ cmd_update_relationship_write(CmdThread)
    \/ cmd_update_relationship_end(CmdThread)
    \/ get_relationships(CmdThread)
    \/ update_relationship(CmdThread)

FrameSpec == FrameInit /\ [][FrameNext]_vars

\* The fields update_relationship assigns.
AssignedFields == {"relation_type", "description", "weight", "updated_at"}

\* Records a and b have the same fields with the same values, the assigned
\* ones apart.
SameFrame(a, b) ==
    \A f \in (DOMAIN a \cup DOMAIN b) \ AssignedFields :
        f \in DOMAIN a /\ f \in DOMAIN b /\ a[f] = b[f]

====
